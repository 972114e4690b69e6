------------------------- MODULE EasyProtocol_proofs -------------------------
(***************************************************************************)
(* For any sizes of payloads, queues and reads, and whatever the line does *)
(* to the bytes: inBuf is written within the bounds it was allocated with; *)
(* a package to which nothing happened comes out when the one before it    *)
(* did; and after any disturbance the parser finds its way back within     *)
(* Reach bytes.                                                            *)
(*                                                                         *)
(* Three inductive invariants, each on top of the one before: IInv, what   *)
(* the parser has stored; Synchronized, that the bytes on their way follow *)
(* each other as they were sent, and that the parser has not left the      *)
(* package that is due; Resynchronizing, where a parser that did leave is  *)
(* on its way back.                                                        *)
(***************************************************************************)
EXTENDS EasyProtocol, SequenceTheorems, TLAPS

SentPackage == [size : 1..iDS, damaged : BOOLEAN, content : Int, before : Nat]

Bytes ==
    /\ wire \in Seq(AnyByte) /\ inQueue \in Seq(AnyByte) /\ inBuf \in Seq(AnyByte)
    /\ sent \in Seq(SentPackage)

(* p and inBuf move together until a payload is omitted, which leaves the    *)
(* head and the size in inBuf; in the payload the size is one that TakeSize  *)
(* has accepted.                                                             *)
Parsing ==
    /\ p \in Nat /\ declaredPayloadSize \in Int /\ omitStream \in BOOLEAN
    /\ p < 3 \/ omitStream = FALSE => Len(inBuf) = p
    /\ p >= 3 /\ omitStream = TRUE => Len(inBuf) = 3
    /\ p >= 3 => /\ declaredPayloadSize > 0
                 /\ declaredPayloadSize <= MAX_PAYLOAD_SIZE_
                 /\ p < declaredPayloadSize + 5
                 /\ omitStream = FALSE => declaredPayloadSize <= iDS

IInv == Bytes /\ Parsing

LEMMA SizesAre ==
    /\ HEAD_1_ = 170 /\ HEAD_2_ = 85 /\ HEAD_LENGTH_ = 2 /\ SIZE_LENGTH_ = 1
    /\ EP_PKG_MODIFIER_SIZE_ = 5
BY DEF HEAD_1_, HEAD_2_, HEAD_LENGTH_, SIZE_LENGTH_, CHECKSUM_LENGTH_, EP_PKG_MODIFIER_SIZE_

LEMMA FunctionIsSeq ==
    ASSUME NEW S, NEW n \in Nat, NEW f \in [1..n -> S]
    PROVE  f \in Seq(S)
BY SeqDef

(* Part of a sequence is a sequence, also when the bounds leave nothing.     *)
LEMMA PartOfSeq ==
    ASSUME NEW S, NEW s \in Seq(S), NEW a \in 1..(Len(s) + 1), NEW b \in 0..Len(s)
    PROVE  SubSeq(s, a, b) \in Seq(S)
BY SubSeqProperties

LEMMA PackageIsBytes ==
    ASSUME NEW id \in Nat, NEW n \in 1..iDS, NEW v \in {1, HEAD_1_}
    PROVE  /\ Package(id, n, v) \in Seq(AnyByte)
           /\ Len(Package(id, n, v)) = n + 5
<1>. DEFINE value(k) == CASE k = 1 -> HEAD_1_ [] k = 2 -> HEAD_2_ [] k = 3 -> n [] OTHER -> v
            pkg == [k \in 1..(n + 5) |-> [value |-> value(k), id |-> id, place |-> k]]
<1>1. n \in 0..255 /\ n + 5 \in Nat
  BY ConstantsAssumption
<1>2. ASSUME NEW k \in 1..(n + 5)
      PROVE  [value |-> value(k), id |-> id, place |-> k] \in AnyByte
  <2>1. value(k) \in 0..255
    BY <1>1, SizesAre
  <2>2. k \in Nat
    BY <1>1
  <2>. HIDE DEF value
  <2>. QED
    BY <2>1, <2>2 DEF AnyByte
<1>. HIDE DEF value
<1>3. pkg \in [1..(n + 5) -> AnyByte]
  BY <1>2
<1>4. pkg \in Seq(AnyByte) /\ Len(pkg) = n + 5
  BY <1>1, <1>3, FunctionIsSeq, LenProperties
<1>5. Package(id, n, v) = pkg
  BY SizesAre DEF Package, value
<1>. QED
  BY <1>4, <1>5

(* Whatever the line does to a package, bytes come out.                      *)
LEMMA DamagesAreBytes ==
    ASSUME NEW s \in Seq(AnyByte), NEW t \in Damages(s)
    PROVE  t \in Seq(AnyByte)
<1>1. Len(s) \in Nat /\ DOMAIN s = 1..Len(s)
  BY LenProperties
<1>2. CASE \E i \in 2..Len(s) : t = SubSeq(s, i, Len(s))
  BY <1>1, <1>2, PartOfSeq
<1>3. CASE \E i \in 1..(Len(s) - 1) : t = SubSeq(s, 1, i)
  BY <1>1, <1>3, PartOfSeq
<1>4. CASE \E i \in 1..Len(s) : t = RemoveAt(s, i)
  <2>1. PICK i \in 1..Len(s) : t = SubSeq(s, 1, i - 1) \o SubSeq(s, i + 1, Len(s))
    BY <1>4 DEF RemoveAt
  <2>2. SubSeq(s, 1, i - 1) \in Seq(AnyByte) /\ SubSeq(s, i + 1, Len(s)) \in Seq(AnyByte)
    BY <1>1, PartOfSeq
  <2>. QED
    BY <2>1, <2>2, ConcatProperties
<1>5. CASE \E i \in 1..Len(s), v \in Noise :
              t = [s EXCEPT ![i] = [value |-> v, id |-> 0, place |-> 0]]
  <2>1. PICK i \in 1..Len(s), v \in Noise :
            t = [s EXCEPT ![i] = [value |-> v, id |-> 0, place |-> 0]]
    BY <1>5
  <2>2. v \in 0..255
    BY ConstantsAssumption, SizesAre DEF Noise
  <2>3. [value |-> v, id |-> 0, place |-> 0] \in AnyByte
    BY <2>2 DEF AnyByte
  <2>. QED
    BY <2>1, <2>3, ExceptSeq
<1>. QED
  BY <1>2, <1>3, <1>4, <1>5 DEF Damages

LEMMA InitHolds == Init => IInv
<1>. SUFFICES ASSUME Init PROVE IInv
  OBVIOUS
<1>1. Bytes
  BY EmptySeq DEF Init, Bytes
<1>2. p = 0 /\ Len(inBuf) = 0 /\ declaredPayloadSize = 0
  BY EmptySeq DEF Init
<1>3. omitStream \in BOOLEAN
  BY DEF Init
<1>. QED
  BY <1>1, <1>2, <1>3 DEF IInv, Parsing

LEMMA RecordIsPackage ==
    ASSUME sent \in Seq(SentPackage), NEW n \in 1..iDS, NEW v \in {1, HEAD_1_}, NEW d \in BOOLEAN
    PROVE  Record(n, v, d) \in SentPackage
<1>1. v \in Int
  BY SizesAre
<1>2. sent # <<>> => Last(sent) \in SentPackage
  <2>1. sent # <<>> => Len(sent) \in DOMAIN sent /\ \A k \in DOMAIN sent : sent[k] \in SentPackage
    OBVIOUS
  <2>. QED BY <2>1 DEF Last
<1>3. sent # <<>> => Last(sent).before \in Nat /\ Last(sent).size \in Nat
  BY <1>2, ConstantsAssumption DEF SentPackage
<1>. DEFINE b == IF sent = <<>> THEN 0 ELSE Last(sent).before + Last(sent).size + 5
<1>4. b \in Nat
  BY <1>3
<1>. HIDE DEF b
<1>5. [size |-> n, damaged |-> d, content |-> v, before |-> b] \in SentPackage
  BY <1>1, <1>4 DEF SentPackage
<1>. QED BY <1>5, SizesAre DEF Record, b

LEMMA DeviceStep ==
    ASSUME IInv, Device
    PROVE  IInv'
<1>1. PICK n \in 1..iDS, v \in {1, HEAD_1_} : Send(n, v) \/ SendDamaged(n, v)
  BY DEF Device
<1>2. Len(sent) + 1 \in Nat /\ n \in Int /\ v \in Int
  BY ConstantsAssumption, SizesAre, LenProperties DEF IInv, Bytes
<1>. DEFINE pkg == Package(Len(sent) + 1, n, v)
<1>3. pkg \in Seq(AnyByte)
  BY <1>2, PackageIsBytes
<1>. HIDE DEF pkg
<1>4. PICK t \in Seq(AnyByte) : wire' = wire \o t
  BY <1>1, <1>3, DamagesAreBytes DEF Send, SendDamaged, pkg
<1>5. PICK d \in BOOLEAN : sent' = Append(sent, Record(n, v, d))
  BY <1>1 DEF Send, SendDamaged
<1>6. sent' \in Seq(SentPackage)
  <2>1. Record(n, v, d) \in SentPackage
    BY RecordIsPackage DEF IInv, Bytes
  <2>. QED
    BY <1>5, <2>1 DEF IInv, Bytes
<1>7. UNCHANGED <<inQueue, parser>>
  BY <1>1 DEF Send, SendDamaged
<1>8. Bytes'
  BY <1>4, <1>6, <1>7, ConcatProperties DEF IInv, Bytes, parser
<1>9. Parsing'
  BY <1>7 DEF IInv, Parsing, parser
<1>. QED
  BY <1>8, <1>9 DEF IInv

LEMMA ReadStep ==
    ASSUME IInv, NEW n \in 1..ReadSize, ReadBytes(n)
    PROVE  IInv'
<1>. DEFINE all == inQueue \o SubSeq(wire, 1, n)
<1>1. Len(wire) \in Nat /\ n \in 1..Len(wire)
  BY ConstantsAssumption, LenProperties DEF ReadBytes, IInv, Bytes
<1>2. SubSeq(wire, 1, n) \in Seq(AnyByte) /\ SubSeq(wire, n + 1, Len(wire)) \in Seq(AnyByte)
  BY <1>1, PartOfSeq DEF IInv, Bytes
<1>3. all \in Seq(AnyByte)
  BY <1>2, ConcatProperties DEF IInv, Bytes
<1>. HIDE DEF all
<1>4. Len(all) \in Nat
  BY <1>3, LenProperties
<1>5. Len(all) > QueueSize => Kept(all) \in Seq(AnyByte)
  BY <1>3, <1>4, PartOfSeq, ConstantsAssumption DEF Kept
<1>6. inQueue' = all \/ (Len(all) > QueueSize /\ inQueue' = Kept(all))
  BY DEF ReadBytes, all
<1>7. wire' = SubSeq(wire, n + 1, Len(wire)) /\ UNCHANGED <<sent, parser>>
  BY DEF ReadBytes
<1>8. Bytes'
  BY <1>2, <1>3, <1>5, <1>6, <1>7 DEF IInv, Bytes, parser
<1>9. Parsing'
  BY <1>7 DEF IInv, Parsing, parser
<1>. QED
  BY <1>8, <1>9 DEF IInv

(* What TakeByte takes is a byte, and what it leaves are bytes.              *)
LEMMA Taken ==
    ASSUME Bytes, TakeByte
    PROVE  /\ Byte \in AnyByte /\ Byte.value \in 0..255
           /\ inQueue' \in Seq(AnyByte)
           /\ UNCHANGED <<wire, sent>>
<1>1. inQueue # <<>> /\ inQueue' = Tail(inQueue) /\ UNCHANGED <<wire, sent>>
  BY DEF TakeByte
<1>2. Head(inQueue) \in AnyByte /\ Tail(inQueue) \in Seq(AnyByte)
  BY <1>1, HeadTailProperties DEF Bytes
<1>. QED
  BY <1>1, <1>2 DEF Byte, AnyByte

(* The byte is kept in inBuf, or the parser starts over.                     *)
LEMMA ByteStored ==
    ASSUME Bytes, TakeByte, Store \/ Restart \/ UNCHANGED inBuf
    PROVE  /\ Bytes'
           /\ Store => Len(inBuf') = Len(inBuf) + 1 /\ p' = p + 1
           /\ Restart => Len(inBuf') = 0 /\ p' = 0
           /\ Len(inBuf) \in Nat
<1>1. Byte \in AnyByte /\ inQueue' \in Seq(AnyByte) /\ UNCHANGED <<wire, sent>>
  BY Taken
<1>2. inBuf \in Seq(AnyByte) /\ Len(inBuf) \in Nat
  BY LenProperties DEF Bytes
<1>3. Store => inBuf' \in Seq(AnyByte) /\ Len(inBuf') = Len(inBuf) + 1 /\ p' = p + 1
  BY <1>1, <1>2, AppendProperties DEF Store
<1>4. Restart => inBuf' \in Seq(AnyByte) /\ Len(inBuf') = 0 /\ p' = 0
  BY EmptySeq DEF Restart
<1>. QED
  BY <1>1, <1>2, <1>3, <1>4 DEF Bytes

LEMMA HeadStep ==
    ASSUME IInv, SeekHead \/ MatchHead
    PROVE  IInv'
<1>1. /\ TakeByte /\ (Store \/ Restart \/ UNCHANGED <<p, inBuf>>)
      /\ declaredPayloadSize' = declaredPayloadSize /\ p \in {0, 1}
      /\ omitStream' = omitStream \/ omitStream' = FALSE
  BY DEF SeekHead, MatchHead
<1>2. /\ Bytes' /\ Len(inBuf) \in Nat
      /\ Store => Len(inBuf') = Len(inBuf) + 1 /\ p' = p + 1
      /\ Restart => Len(inBuf') = 0 /\ p' = 0
  BY <1>1, ByteStored DEF IInv
<1>3. Len(inBuf) = p /\ declaredPayloadSize \in Int /\ omitStream \in BOOLEAN
  BY <1>1 DEF IInv, Parsing
<1>4. p' \in 0..2 /\ Len(inBuf') = p'
  BY <1>1, <1>2, <1>3
<1>5. omitStream' \in BOOLEAN
  BY <1>1, <1>3
<1>6. Parsing'
  BY <1>1, <1>3, <1>4, <1>5 DEF Parsing
<1>. QED
  BY <1>2, <1>6 DEF IInv

LEMMA SizeStep ==
    ASSUME IInv, TakeSize
    PROVE  IInv'
<1>. DEFINE n == Int8(Byte.value)
<1>1. TakeByte /\ p = 2 /\ declaredPayloadSize' = n /\ (Store \/ Restart)
  BY SizesAre DEF TakeSize
<1>2. Byte.value \in 0..255
  BY <1>1, Taken DEF IInv
<1>3. n \in Int
  BY <1>2 DEF Int8
<1>. HIDE DEF n
<1>4. /\ Bytes' /\ Len(inBuf) = 2
      /\ Store => Len(inBuf') = Len(inBuf) + 1 /\ p' = p + 1
      /\ Restart => Len(inBuf') = 0 /\ p' = 0
  BY <1>1, ByteStored DEF IInv, Parsing
<1>5. CASE BadSize(n)
  <2>1. Restart /\ omitStream' = omitStream
    BY <1>1, <1>5 DEF TakeSize
  <2>2. p' = 0 /\ Len(inBuf') = 0 /\ declaredPayloadSize' \in Int
    BY <1>1, <1>3, <1>4, <2>1
  <2>3. omitStream' \in BOOLEAN
    BY <2>1 DEF IInv, Parsing
  <2>. QED
    BY <1>4, <2>2, <2>3 DEF IInv, Parsing
<1>6. CASE ~BadSize(n)
  <2>1. Store /\ omitStream' = (n > iDS)
    BY <1>1, <1>6 DEF TakeSize, TooLarge
  <2>2. p' = 3 /\ Len(inBuf') = 3 /\ declaredPayloadSize' = n /\ n > 0 /\ n <= MAX_PAYLOAD_SIZE_
    BY <1>1, <1>3, <1>4, <1>6, <2>1, ConstantsAssumption DEF BadSize
  <2>3. omitStream' \in BOOLEAN /\ (omitStream' = FALSE => ~(n > iDS))
    <3>1. (n > iDS) = TRUE \/ (n > iDS) = FALSE
      BY <1>3, ConstantsAssumption
    <3>2. omitStream' = TRUE \/ (omitStream' = FALSE /\ ~(n > iDS))
      BY <2>1, <3>1, Zenon
    <3>. QED
      BY <3>2, Zenon
  <2>4. ~(n > iDS) => n <= iDS
    BY <1>3, ConstantsAssumption
  <2>. QED
    BY <1>3, <1>4, <2>2, <2>3, <2>4 DEF IInv, Parsing
<1>. QED
  BY <1>5, <1>6

LEMMA PayloadStep ==
    ASSUME IInv, StoreByte \/ CompleteGood \/ CompleteBad \/ OmitByte
    PROVE  IInv'
<1>1. /\ TakeByte /\ p >= 3 /\ (Store \/ Restart \/ UNCHANGED inBuf)
      /\ UNCHANGED <<declaredPayloadSize, omitStream>>
  BY SizesAre DEF StoreByte, CompleteGood, CompleteBad, OmitByte, InPayload
<1>2. /\ Bytes' /\ Len(inBuf) \in Nat
      /\ Store => Len(inBuf') = Len(inBuf) + 1 /\ p' = p + 1
      /\ Restart => Len(inBuf') = 0 /\ p' = 0
  BY <1>1, ByteStored DEF IInv
<1>3. /\ p \in Nat /\ declaredPayloadSize \in Int /\ omitStream \in BOOLEAN
      /\ declaredPayloadSize > 0 /\ p < declaredPayloadSize + 5
      /\ declaredPayloadSize <= MAX_PAYLOAD_SIZE_
      /\ omitStream = FALSE => declaredPayloadSize <= iDS /\ Len(inBuf) = p
      /\ omitStream = TRUE => Len(inBuf) = 3
  BY <1>1 DEF IInv, Parsing
<1>4. CASE Restart
  BY <1>1, <1>2, <1>3, <1>4 DEF IInv, Parsing
<1>5. ASSUME ~Restart
      PROVE  /\ ~(p + 1 >= declaredPayloadSize + 5)
             /\ \/ omitStream = FALSE /\ Store
                \/ omitStream = TRUE /\ p' = p + 1 /\ inBuf' = inBuf
  <2>1. \/ StoreByte
        \/ OmitByte /\ ~Complete
    BY <1>5 DEF CompleteGood, CompleteBad, OmitByte
  <2>2. ~Complete
    BY <2>1 DEF StoreByte
  <2>3. ~(p + 1 >= declaredPayloadSize + 5)
    BY <2>2, SizesAre DEF Complete
  <2>4. omitStream \in BOOLEAN
    BY <1>3
  <2>5. \/ omitStream = FALSE /\ Store
        \/ omitStream = TRUE /\ p' = p + 1 /\ inBuf' = inBuf
    BY <2>1, <2>2, <2>4 DEF StoreByte, OmitByte
  <2>. QED
    BY <2>3, <2>5
<1>6. CASE ~Restart
  <2>1. p + 1 < declaredPayloadSize + 5 /\ p' = p + 1 /\ p' \in Nat
    <3>1. p \in Nat /\ declaredPayloadSize \in Int /\ ~(p + 1 >= declaredPayloadSize + 5)
      BY <1>3, <1>5, <1>6
    <3>2. p' = p + 1
      BY <1>2, <1>5, <1>6, Zenon
    <3>. QED
      BY <3>1, <3>2
  <2>2. /\ omitStream = FALSE => Len(inBuf') = p'
        /\ omitStream = TRUE => Len(inBuf') = 3
    <3>1. CASE omitStream = FALSE /\ Store
      BY <1>2, <1>3, <2>1, <3>1
    <3>2. CASE omitStream = TRUE /\ inBuf' = inBuf
      BY <1>3, <3>2
    <3>. QED
      BY <1>5, <1>6, <3>1, <3>2, Zenon
  <2>. QED
    BY <1>1, <1>2, <1>3, <2>1, <2>2 DEF IInv, Parsing
<1>. QED
  BY <1>4, <1>6

LEMMA InvariantHolds == Spec => []IInv
<1>1. ASSUME IInv, NothingLeft \/ Publish \/ UNCHANGED vars
      PROVE  IInv'
  BY <1>1 DEF NothingLeft, Publish, vars, parser, IInv, Bytes, Parsing
<1>2. IInv /\ [Next]_vars => IInv'
  BY <1>1, DeviceStep, ReadStep, HeadStep, SizeStep, PayloadStep DEF Next, Timer
<1>. QED
  BY InitHolds, <1>2, PTL DEF Spec

(* inBuf has room for whatever it is made to hold.                           *)
THEOREM BufferIsLargeEnough == Spec => []InBufHolds
<1>1. ASSUME IInv
      PROVE  InBufHolds
  <2>1. /\ p \in Nat /\ declaredPayloadSize \in Int /\ omitStream \in BOOLEAN
        /\ p < 3 \/ omitStream = FALSE => Len(inBuf) = p
        /\ p >= 3 /\ omitStream = TRUE => Len(inBuf) = 3
        /\ p >= 3 => p < declaredPayloadSize + 5
        /\ p >= 3 /\ omitStream = FALSE => declaredPayloadSize <= iDS
    BY <1>1 DEF IInv, Parsing
  <2>2. Len(inBuf) <= iDS + 5
    <3>1. CASE p < 3
      BY <2>1, <3>1, ConstantsAssumption
    <3>2. CASE p >= 3 /\ omitStream = TRUE
      <4>1. Len(inBuf) = 3
        BY <2>1, <3>2
      <4>. QED
        BY <4>1, ConstantsAssumption
    <3>3. CASE p >= 3 /\ omitStream = FALSE
      BY <2>1, <3>3, ConstantsAssumption
    <3>4. (p < 3 \/ p >= 3) /\ (omitStream = TRUE \/ omitStream = FALSE)
      BY <2>1
    <3>. QED
      BY <3>1, <3>2, <3>3, <3>4, Zenon
  <2>. QED
    BY <2>1, <2>2, SizesAre DEF InBufHolds, InPayload
<1>. QED
  BY <1>1, InvariantHolds, PTL

-----------------------------------------------------------------------------
(* What is on its way to the parser: the bytes of the queue and of the port. *)
Stream == inQueue \o wire

(* A byte of a package says where it is in it, and has the value of its      *)
(* place; one that the line altered is of none.                              *)
ByteOf(b, s) ==
    \/ b.id = 0 /\ b.place = 0
    \/ /\ b.id \in DOMAIN s /\ b.place \in 1..(s[b.id].size + 5)
       /\ b.place = 1 => b.value = HEAD_1_
       /\ b.place = 2 => b.value = HEAD_2_
       /\ b.place = 3 => b.value = s[b.id].size
       /\ b.place > 3 => b.value = s[b.id].content

SoundIn(s, o, i) == ~s[i].damaged /\ i \notin o

(* The bytes of a sound package are followed by the rest of it, and the last *)
(* byte of any package by the next package, if there is one and it is sound. *)
FollowedAt(q, s, o, a) ==
    \A i \in DOMAIN s :
        q[a].id = i =>
            IF q[a].place < s[i].size + 5
               THEN SoundIn(s, o, i) => /\ a < Len(q)
                                        /\ q[a + 1].id = i
                                        /\ q[a + 1].place = q[a].place + 1
               ELSE IF a = Len(q)
                       THEN i = Len(s)
                       ELSE /\ i < Len(s)
                            /\ SoundIn(s, o, i + 1) => /\ q[a + 1].id = i + 1
                                                       /\ q[a + 1].place = 1

Carries(q, s, o) ==
    \A a \in 1..Len(q) : ByteOf(q[a], s) /\ FollowedAt(q, s, o, a)

(* Taking or losing bytes at the front keeps all that: what follows a byte   *)
(* stays where it is.                                                        *)
RestOf(r, q, d) ==
    /\ r \in Seq(AnyByte) /\ q \in Seq(AnyByte) /\ d \in 0..Len(q)
    /\ Len(r) = Len(q) - d
    /\ \A a \in 1..Len(r) : r[a] = q[a + d]

LEMMA CarriesRest ==
    ASSUME NEW q, NEW r, NEW d, RestOf(r, q, d),
           NEW s, NEW o, NEW o2, o \subseteq o2, Carries(q, s, o)
    PROVE  Carries(r, s, o2)
<1>1. /\ Len(q) \in Nat /\ Len(r) = Len(q) - d /\ d \in Nat /\ Len(r) \in Nat
      /\ \A a \in 1..Len(r) : r[a] = q[a + d]
  BY LenProperties DEF RestOf
<1>2. ASSUME NEW a \in 1..Len(r) PROVE ByteOf(r[a], s) /\ FollowedAt(r, s, o2, a)
  <2>1. a + d \in 1..Len(q) /\ r[a] = q[a + d] /\ a \in Nat
        /\ (a < Len(r) <=> a + d < Len(q)) /\ (a = Len(r) <=> a + d = Len(q))
        /\ (a = Len(r) \/ a < Len(r))
    BY <1>1
  <2>2. a < Len(r) => r[a + 1] = q[(a + d) + 1]
    <3>. SUFFICES ASSUME a < Len(r) PROVE r[a + 1] = q[(a + d) + 1]
      OBVIOUS
    <3>1. a + 1 \in 1..Len(r) /\ (a + 1) + d = (a + d) + 1
      BY <1>1, <2>1
    <3>2. r[a + 1] = q[(a + 1) + d]
      BY <1>1, <3>1, Zenon
    <3>. QED BY <3>1, <3>2, Zenon
  <2>3. ByteOf(q[a + d], s) /\ FollowedAt(q, s, o, a + d)
    BY <2>1, Zenon DEF Carries
  <2>4. \A i : SoundIn(s, o2, i) => SoundIn(s, o, i)
    BY Zenon DEF SoundIn
  <2>5. FollowedAt(r, s, o2, a)
    <3>. SUFFICES ASSUME NEW i \in DOMAIN s, r[a].id = i
                  PROVE  IF r[a].place < s[i].size + 5
                            THEN SoundIn(s, o2, i) => /\ a < Len(r)
                                                      /\ r[a + 1].id = i
                                                      /\ r[a + 1].place = r[a].place + 1
                            ELSE IF a = Len(r)
                                    THEN i = Len(s)
                                    ELSE /\ i < Len(s)
                                         /\ SoundIn(s, o2, i + 1) => /\ r[a + 1].id = i + 1
                                                                     /\ r[a + 1].place = 1
      BY DEF FollowedAt
    <3>1. IF q[a + d].place < s[i].size + 5
             THEN SoundIn(s, o, i) => /\ a + d < Len(q)
                                      /\ q[(a + d) + 1].id = i
                                      /\ q[(a + d) + 1].place = q[a + d].place + 1
             ELSE IF a + d = Len(q)
                     THEN i = Len(s)
                     ELSE /\ i < Len(s)
                          /\ SoundIn(s, o, i + 1) => /\ q[(a + d) + 1].id = i + 1
                                                     /\ q[(a + d) + 1].place = 1
      BY <2>1, <2>3 DEF FollowedAt
    <3>. QED BY <2>1, <2>2, <2>4, <3>1
  <2>. QED BY <2>1, <2>3, <2>5
<1>. QED BY <1>2 DEF Carries

(* What the line makes of the next package: bytes that say where they belong *)
(* and the last of which, if it is there, is the last.                       *)
Piece(t, i, n, v) ==
    /\ t \in Seq(AnyByte) /\ Len(t) \in Nat \ {0}
    /\ \A a \in 1..Len(t) :
          \/ t[a].id = 0 /\ t[a].place = 0
          \/ /\ t[a].id = i /\ t[a].place \in 1..(n + 5)
             /\ t[a].place = n + 5 => a = Len(t)
             /\ t[a].place = 1 => t[a].value = HEAD_1_
             /\ t[a].place = 2 => t[a].value = HEAD_2_
             /\ t[a].place = 3 => t[a].value = n
             /\ t[a].place > 3 => t[a].value = v

WholeIs(t, i, n) ==
    Len(t) = n + 5 /\ \A a \in 1..Len(t) : t[a].id = i /\ t[a].place = a

LEMMA PackageIsWhole ==
    ASSUME NEW i \in Nat, NEW n \in 1..iDS, NEW v \in {1, HEAD_1_}
    PROVE  /\ WholeIs(Package(i, n, v), i, n) /\ Piece(Package(i, n, v), i, n, v)
           /\ \A a \in 1..(n + 5) : Package(i, n, v)[a].id = i /\ Package(i, n, v)[a].place = a
<1>. DEFINE value(k) == CASE k = 1 -> HEAD_1_ [] k = 2 -> HEAD_2_ [] k = 3 -> n [] OTHER -> v
            pkg == Package(i, n, v)
<1>1. pkg \in Seq(AnyByte) /\ Len(pkg) = n + 5 /\ n \in Nat \ {0}
  BY PackageIsBytes, ConstantsAssumption
<1>2. pkg = [k \in 1..(n + 5) |-> [value |-> value(k), id |-> i, place |-> k]]
  BY SizesAre DEF Package
<1>3. /\ value(1) = HEAD_1_ /\ value(2) = HEAD_2_ /\ value(3) = n
      /\ \A k \in Nat : k > 3 => value(k) = v
  OBVIOUS
<1>. HIDE DEF value, pkg
<1>4. ASSUME NEW a \in 1..(n + 5)
      PROVE  pkg[a].id = i /\ pkg[a].place = a /\ pkg[a].value = value(a)
  BY <1>2
<1>5. WholeIs(pkg, i, n)
  BY <1>1, <1>4 DEF WholeIs
<1>6. Piece(pkg, i, n, v)
  <2>1. \A a \in 1..(n + 5) : a \in Nat
    BY <1>1
  <2>. QED BY <1>1, <1>3, <1>4, <2>1 DEF Piece
<1>. QED BY <1>4, <1>5, <1>6 DEF pkg

(* A package that lost bytes, or of which one was altered, is still a piece. *)
LEMMA DamagesArePieces ==
    ASSUME NEW i \in Nat, NEW n \in 1..iDS, NEW v, NEW q, Piece(q, i, n, v), WholeIs(q, i, n),
           NEW t \in Damages(q)
    PROVE  Piece(t, i, n, v)
<1>0. /\ q \in Seq(AnyByte) /\ Len(q) = n + 5 /\ n \in Nat \ {0} /\ t \in Seq(AnyByte)
      /\ DOMAIN q = 1..(n + 5)
      /\ \A a \in 1..(n + 5) : q[a].id = i /\ q[a].place = a
      /\ \A a \in 1..(n + 5) : /\ a = 1 => q[a].value = HEAD_1_
                               /\ a = 2 => q[a].value = HEAD_2_
                               /\ a = 3 => q[a].value = n
                               /\ a > 3 => q[a].value = v
  <2>1. q \in Seq(AnyByte) /\ Len(q) = n + 5
    BY DEF Piece, WholeIs
  <2>2. t \in Seq(AnyByte)
    BY <2>1, DamagesAreBytes
  <2>3. n \in Nat \ {0} /\ DOMAIN q = 1..(n + 5)
    BY <2>1, ConstantsAssumption, LenProperties
  <2>4. \A a \in 1..(n + 5) : q[a].id = i /\ q[a].place = a
    BY <2>1 DEF WholeIs
  <2>5. ASSUME NEW a \in 1..(n + 5)
        PROVE  /\ a = 1 => q[a].value = HEAD_1_
               /\ a = 2 => q[a].value = HEAD_2_
               /\ a = 3 => q[a].value = n
               /\ a > 3 => q[a].value = v
    <3>1. q[a].place = a /\ a # 0
      BY <2>3, <2>4
    <3>. QED BY <2>1, <3>1 DEF Piece
  <2>. QED BY <2>1, <2>2, <2>3, <2>4, <2>5
(* the bytes of q in their order, the last of which may be last only *)
<1>1. ASSUME Len(t) \in Nat \ {0},
             \A a \in 1..Len(t) : \/ t[a].id = 0 /\ t[a].place = 0
                                  \/ \E k \in 1..(n + 5) : /\ t[a] = q[k]
                                                           /\ k = n + 5 => a = Len(t)
      PROVE  Piece(t, i, n, v)
  <2>1. ASSUME NEW a \in 1..Len(t), NEW k \in 1..(n + 5), t[a] = q[k], k = n + 5 => a = Len(t)
        PROVE  /\ t[a].id = i /\ t[a].place \in 1..(n + 5)
               /\ t[a].place = n + 5 => a = Len(t)
               /\ t[a].place = 1 => t[a].value = HEAD_1_
               /\ t[a].place = 2 => t[a].value = HEAD_2_
               /\ t[a].place = 3 => t[a].value = n
               /\ t[a].place > 3 => t[a].value = v
    BY <1>0, <2>1
  <2>. QED BY <1>0, <1>1, <2>1 DEF Piece
<1>2. CASE \E b \in 2..Len(q) : t = SubSeq(q, b, Len(q))
  <2>1. PICK b \in 2..(n + 5) : t = SubSeq(q, b, n + 5)
    BY <1>0, <1>2
  <2>2. /\ Len(t) = n + 5 - b + 1
        /\ \A a \in 1..(n + 5 - b + 1) : t[a] = q[b + a - 1]
    <3>1. b \in 1..(Len(q) + 1) /\ n + 5 \in 0..Len(q)
      BY <1>0
    <3>. QED BY <1>0, <2>1, <3>1, SubSeqProperties
  <2>3. ASSUME NEW a \in 1..Len(t)
        PROVE  /\ b + a - 1 \in 1..(n + 5)
               /\ b + a - 1 = n + 5 => a = Len(t)
               /\ t[a] = q[b + a - 1]
    BY <1>0, <2>2
  <2>4. Len(t) \in Nat \ {0}
    BY <1>0, <2>2
  <2>. QED BY <1>1, <2>3, <2>4
<1>3. CASE \E b \in 1..(Len(q) - 1) : t = SubSeq(q, 1, b)
  <2>1. PICK b \in 1..(n + 4) : t = SubSeq(q, 1, b)
    BY <1>0, <1>3
  <2>2. Len(t) = b /\ \A a \in 1..b : t[a] = q[a]
    BY <1>0, <2>1
  <2>3. ASSUME NEW a \in 1..Len(t)
        PROVE  a \in 1..(n + 5) /\ a # n + 5 /\ t[a] = q[a]
    BY <1>0, <2>2
  <2>4. Len(t) \in Nat \ {0}
    BY <2>2
  <2>. QED BY <1>1, <2>3, <2>4
<1>4. CASE \E b \in 1..Len(q) : t = RemoveAt(q, b)
  <2>1. PICK b \in 1..(n + 5) : t = SubSeq(q, 1, b - 1) \o SubSeq(q, b + 1, n + 5)
    BY <1>0, <1>4 DEF RemoveAt
  <2>. DEFINE front == SubSeq(q, 1, b - 1)
              back == SubSeq(q, b + 1, n + 5)
  <2>2. /\ front \in Seq(AnyByte) /\ Len(front) = b - 1
        /\ \A a \in 1..(b - 1) : front[a] = q[a]
    <3>1. 1 \in 1..(Len(q) + 1) /\ b - 1 \in 0..Len(q)
      BY <1>0
    <3>2. Len(front) = IF 1 <= b - 1 THEN b - 1 - 1 + 1 ELSE 0
      BY <1>0, <3>1, SubSeqProperties
    <3>3. front \in Seq(AnyByte)
      BY <1>0, <3>1, PartOfSeq
    <3>4. \A a \in 1..(b - 1) : front[a] = q[a]
      <4>1. \A a \in 1..(b - 1 - 1 + 1) : front[a] = q[1 + a - 1]
        BY <1>0, <3>1, SubSeqProperties
      <4>. HIDE DEF front
      <4>. QED BY <4>1
    <3>. HIDE DEF front
    <3>. QED BY <3>2, <3>3, <3>4
  <2>3. /\ back \in Seq(AnyByte) /\ Len(back) = n + 5 - b
        /\ \A a \in 1..(n + 5 - b) : back[a] = q[a + b]
    <3>1. b + 1 \in 1..(Len(q) + 1) /\ n + 5 \in 0..Len(q)
      BY <1>0
    <3>2. Len(back) = IF b + 1 <= n + 5 THEN n + 5 - (b + 1) + 1 ELSE 0
      BY <1>0, <3>1, SubSeqProperties
    <3>3. back \in Seq(AnyByte)
      BY <1>0, <3>1, PartOfSeq
    <3>4. \A a \in 1..(n + 5 - b) : back[a] = q[a + b]
      <4>1. \A a \in 1..(n + 5 - (b + 1) + 1) : back[a] = q[b + 1 + a - 1]
        BY <1>0, <3>1, SubSeqProperties
      <4>2. \A a \in 1..(n + 5 - b) : a \in 1..(n + 5 - (b + 1) + 1) /\ b + 1 + a - 1 = a + b
        BY <1>0
      <4>. HIDE DEF back
      <4>. SUFFICES ASSUME NEW a \in 1..(n + 5 - b) PROVE back[a] = q[a + b]
        OBVIOUS
      <4>3. a \in 1..(n + 5 - (b + 1) + 1) /\ b + 1 + a - 1 = a + b
        BY <4>2
      <4>4. back[a] = q[b + 1 + a - 1]
        BY <4>1, <4>3, Zenon
      <4>. QED BY <4>3, <4>4, Zenon
    <3>. HIDE DEF back
    <3>5. Len(back) = n + 5 - b
      <4>1. b \in 1..(n + 5) /\ n \in Nat
        BY <1>0
      <4>. QED BY <3>2, <4>1
    <3>. QED BY <3>3, <3>4, <3>5, Zenon
  <2>. HIDE DEF front, back
  <2>4. /\ Len(t) = n + 4
        /\ \A a \in 1..(n + 4) : t[a] = IF a <= b - 1 THEN front[a] ELSE back[a - (b - 1)]
    <3>1. t = front \o back /\ Len(front) + Len(back) = n + 4
      BY <1>0, <2>1, <2>2, <2>3 DEF front, back
    <3>2. front \in Seq(AnyByte) /\ back \in Seq(AnyByte)
      BY <2>2, <2>3
    <3>3. /\ Len(front \o back) = Len(front) + Len(back)
          /\ \A a \in 1..(Len(front) + Len(back)) :
                (front \o back)[a] = IF a <= Len(front) THEN front[a]
                                                        ELSE back[a - Len(front)]
      BY <3>2, ConcatProperties
    <3>. QED BY <2>2, <3>1, <3>3
  <2>5. ASSUME NEW a \in 1..Len(t)
        PROVE  \E k \in 1..(n + 5) : t[a] = q[k] /\ (k = n + 5 => a = Len(t))
    <3>1. CASE a <= b - 1
      <4>1. a \in 1..(b - 1) /\ a \in 1..(n + 5) /\ a # n + 5 /\ a \in 1..(n + 4)
        BY <1>0, <2>4, <3>1
      <4>2. t[a] = q[a]
        BY <2>2, <2>4, <3>1, <4>1
      <4>. QED BY <4>1, <4>2
    <3>2. CASE ~(a <= b - 1)
      <4>1. /\ a - (b - 1) \in 1..(n + 5 - b) /\ (a - (b - 1)) + b = a + 1 /\ a \in 1..(n + 4)
            /\ a + 1 \in 1..(n + 5) /\ (a + 1 = n + 5 => a = Len(t))
        BY <1>0, <2>4, <3>2
      <4>2. t[a] = back[a - (b - 1)]
        BY <2>4, <3>2, <4>1
      <4>3. t[a] = q[a + 1]
        BY <2>3, <4>1, <4>2
      <4>. QED BY <4>1, <4>3
    <3>. QED BY <3>1, <3>2
  <2>6. Len(t) \in Nat \ {0}
    BY <1>0, <2>4
  <2>. QED BY <1>1, <2>5, <2>6
<1>5. CASE \E b \in 1..Len(q), w \in Noise :
              t = [q EXCEPT ![b] = [value |-> w, id |-> 0, place |-> 0]]
  <2>1. PICK b \in 1..(n + 5), w \in Noise :
            t = [q EXCEPT ![b] = [value |-> w, id |-> 0, place |-> 0]]
    BY <1>0, <1>5
  <2>2. Len(t) = n + 5
    BY <1>0, <2>1
  <2>3. ASSUME NEW a \in 1..Len(t)
        PROVE  \/ t[a].id = 0 /\ t[a].place = 0
               \/ a \in 1..(n + 5) /\ t[a] = q[a] /\ (a = n + 5 => a = Len(t))
    BY <1>0, <2>1, <2>2
  <2>4. Len(t) \in Nat \ {0}
    BY <1>0, <2>2
  <2>. QED BY <1>1, <2>3, <2>4
<1>. QED BY <1>2, <1>3, <1>4, <1>5, <1>0 DEF Damages

(* What the device sends next, damaged or not, comes last.                   *)
LEMMA CarriesPiece ==
    ASSUME NEW q, q \in Seq(AnyByte), NEW s, s \in Seq(SentPackage), NEW o, Carries(q, s, o),
           NEW r, r \in SentPackage, NEW n, r.size = n, NEW v, r.content = v,
           NEW t, Piece(t, Len(s) + 1, n, v), r.damaged = FALSE => WholeIs(t, Len(s) + 1, n)
    PROVE  Carries(q \o t, Append(s, r), o)
<1>. DEFINE N == Len(s) + 1
            s2 == Append(s, r)
            d == r.damaged
            u == q \o t
<1>1. /\ Len(s) \in Nat /\ DOMAIN s = 1..Len(s) /\ Len(q) \in Nat
      /\ t \in Seq(AnyByte) /\ Len(t) \in Nat \ {0} /\ n \in Nat \ {0} /\ d \in BOOLEAN
  <2>1. n \in 1..iDS /\ d \in BOOLEAN
    BY DEF SentPackage
  <2>. QED BY <2>1, LenProperties, ConstantsAssumption DEF Piece
<1>2. /\ Len(s2) = N /\ DOMAIN s2 = 1..N /\ N \in Nat \ {0}
      /\ \A i \in 1..Len(s) : s2[i] = s[i]
      /\ s2[N].size = n /\ s2[N].damaged = d /\ s2[N].content = v
  BY <1>1
<1>3. /\ Len(u) = Len(q) + Len(t)
      /\ \A a \in 1..Len(q) : u[a] = q[a]
      /\ \A a \in 1..Len(t) : u[Len(q) + a] = t[a]
  BY <1>1
<1>. HIDE DEF N, s2, u, d
<1>4. \A i \in 1..Len(s) : SoundIn(s2, o, i) => SoundIn(s, o, i)
  BY <1>2 DEF SoundIn
<1>5. SoundIn(s2, o, N) => WholeIs(t, N, n)
  BY <1>1, <1>2 DEF SoundIn, N, d
<1>6. ASSUME NEW a \in 1..Len(q) PROVE ByteOf(u[a], s2) /\ FollowedAt(u, s2, o, a)
  <2>1. ByteOf(q[a], s) /\ FollowedAt(q, s, o, a) /\ u[a] = q[a]
    BY <1>3 DEF Carries
  <2>2. ByteOf(u[a], s2)
    <3>1. CASE q[a].id = 0 /\ q[a].place = 0
      BY <2>1, <3>1 DEF ByteOf
    <3>2. CASE q[a].id \in DOMAIN s
      <4>1. q[a].id \in DOMAIN s2 /\ s2[q[a].id] = s[q[a].id]
        <5>1. DOMAIN s2 = 1..(Len(s) + 1) /\ Len(s) \in Nat /\ q[a].id \in 1..Len(s)
          BY <1>1, <1>2, <3>2 DEF N
        <5>2. s2[q[a].id] = s[q[a].id]
          BY <1>2, <5>1, Zenon
        <5>3. q[a].id \in 1..(Len(s) + 1)
          BY <5>1
        <5>. QED BY <5>1, <5>2, <5>3, Zenon
      <4>. QED BY <2>1, <4>1, Zenon DEF ByteOf
    <3>. QED BY <2>1, <3>1, <3>2 DEF ByteOf
  <2>3. FollowedAt(u, s2, o, a)
    <3>. SUFFICES ASSUME NEW i \in DOMAIN s2, u[a].id = i
                  PROVE  IF u[a].place < s2[i].size + 5
                            THEN SoundIn(s2, o, i) => /\ a < Len(u)
                                                      /\ u[a + 1].id = i
                                                      /\ u[a + 1].place = u[a].place + 1
                            ELSE IF a = Len(u)
                                    THEN i = Len(s2)
                                    ELSE /\ i < Len(s2)
                                         /\ SoundIn(s2, o, i + 1) => /\ u[a + 1].id = i + 1
                                                                     /\ u[a + 1].place = 1
      BY DEF FollowedAt
    <3>1. i \in 1..Len(s) /\ i \in DOMAIN s /\ s2[i] = s[i]
      BY <1>1, <1>2, <2>1 DEF ByteOf
    <3>2. IF q[a].place < s[i].size + 5
             THEN SoundIn(s, o, i) => /\ a < Len(q)
                                      /\ q[a + 1].id = i
                                      /\ q[a + 1].place = q[a].place + 1
             ELSE IF a = Len(q)
                     THEN i = Len(s)
                     ELSE /\ i < Len(s)
                          /\ SoundIn(s, o, i + 1) => /\ q[a + 1].id = i + 1
                                                     /\ q[a + 1].place = 1
      BY <2>1, <3>1 DEF FollowedAt
    <3>3. CASE a < Len(q)
      <4>1. a < Len(u) /\ u[a + 1] = q[a + 1]
        BY <1>1, <1>3, <3>3
      <4>2. i < Len(s) => /\ i < Len(s2)
                          /\ SoundIn(s2, o, i + 1) => SoundIn(s, o, i + 1)
        BY <1>1, <1>2, <1>4, <3>1 DEF N
      <4>. QED BY <1>1, <1>4, <2>1, <3>1, <3>2, <3>3, <4>1, <4>2
    <3>4. CASE a = Len(q)
      <4>1. /\ ~(a < Len(q)) /\ ~(a = Len(u)) /\ u[a + 1] = t[1]
        <5>1. 1 \in 1..Len(t) /\ ~(a < Len(q)) /\ ~(a = Len(u))
          BY <1>1, <1>3, <3>4
        <5>2. u[Len(q) + 1] = t[1]
          BY <1>3, <5>1, Zenon
        <5>. QED BY <3>4, <5>1, <5>2, Zenon
      <4>2. SoundIn(s2, o, N) => t[1].id = N /\ t[1].place = 1
        <5>1. 1 \in 1..Len(t)
          BY <1>1
        <5>. QED BY <1>5, <5>1 DEF WholeIs
      <4>3. i = Len(s) => i < Len(s2) /\ i + 1 = N
        BY <1>1, <1>2 DEF N
      <4>. QED BY <1>4, <2>1, <3>1, <3>2, <3>4, <4>1, <4>2, <4>3
    <3>. QED BY <1>1, <3>3, <3>4
  <2>. QED BY <2>2, <2>3
<1>7. ASSUME NEW b \in 1..Len(t)
      PROVE  ByteOf(u[Len(q) + b], s2) /\ FollowedAt(u, s2, o, Len(q) + b)
  <2>. DEFINE a == Len(q) + b
  <2>1. /\ u[a] = t[b] /\ a \in Nat /\ (a < Len(u) <=> b < Len(t)) /\ (a = Len(u) <=> b = Len(t))
        /\ (b < Len(t) => u[a + 1] = t[b + 1])
    <3>1. b < Len(t) => b + 1 \in 1..Len(t) /\ Len(q) + (b + 1) = a + 1
      BY <1>1
    <3>2. b < Len(t) => u[Len(q) + (b + 1)] = t[b + 1]
      BY <1>3, <3>1, Zenon
    <3>3. b < Len(t) => u[a + 1] = t[b + 1]
      <4>. HIDE DEF a
      <4>. QED BY <3>1, <3>2, Zenon
    <3>4. u[a] = t[b]
      BY <1>3, Zenon
    <3>5. a \in Nat /\ (a < Len(u) <=> b < Len(t)) /\ (a = Len(u) <=> b = Len(t))
      <4>1. Len(q) \in Nat /\ Len(t) \in Nat /\ b \in Nat /\ Len(u) = Len(q) + Len(t)
        BY <1>1, <1>3
      <4>. QED BY <4>1
    <3>. QED BY <3>3, <3>4, <3>5
  <2>. HIDE DEF a
  <2>2. \/ t[b].id = 0 /\ t[b].place = 0
        \/ /\ t[b].id = N /\ t[b].place \in 1..(n + 5)
           /\ t[b].place = n + 5 => b = Len(t)
           /\ t[b].place = 1 => t[b].value = HEAD_1_
           /\ t[b].place = 2 => t[b].value = HEAD_2_
           /\ t[b].place = 3 => t[b].value = n
           /\ t[b].place > 3 => t[b].value = v
    BY DEF Piece, N
  <2>3. ByteOf(u[a], s2)
    BY <1>2, <2>1, <2>2 DEF ByteOf
  <2>4. FollowedAt(u, s2, o, a)
    <3>. SUFFICES ASSUME NEW i \in DOMAIN s2, u[a].id = i
                  PROVE  IF u[a].place < s2[i].size + 5
                            THEN SoundIn(s2, o, i) => /\ a < Len(u)
                                                      /\ u[a + 1].id = i
                                                      /\ u[a + 1].place = u[a].place + 1
                            ELSE IF a = Len(u)
                                    THEN i = Len(s2)
                                    ELSE /\ i < Len(s2)
                                         /\ SoundIn(s2, o, i + 1) => /\ u[a + 1].id = i + 1
                                                                     /\ u[a + 1].place = 1
      BY DEF FollowedAt
    <3>1. i = N /\ t[b].place \in 1..(n + 5) /\ (t[b].place = n + 5 => b = Len(t))
      BY <1>2, <2>1, <2>2
    <3>2. CASE u[a].place < n + 5
      <4>1. SoundIn(s2, o, i) => /\ b < Len(t) /\ t[b + 1].id = N
                                 /\ t[b + 1].place = b + 1 /\ t[b].place = b
        <5>. SUFFICES ASSUME WholeIs(t, N, n)
                      PROVE  /\ b < Len(t) /\ t[b + 1].id = N
                             /\ t[b + 1].place = b + 1 /\ t[b].place = b
          BY <1>5, <3>1
        <5>1. t[b].place = b /\ Len(t) = n + 5
          BY DEF WholeIs
        <5>2. b < Len(t) /\ b + 1 \in 1..Len(t)
          BY <1>1, <2>1, <3>2, <5>1
        <5>. QED BY <5>1, <5>2 DEF WholeIs
      <4>. QED BY <1>2, <2>1, <3>1, <3>2, <4>1
    <3>3. CASE ~(u[a].place < n + 5)
      <4>1. t[b].place = n + 5
        BY <1>1, <2>1, <3>1, <3>3
      <4>. QED BY <1>2, <2>1, <3>1, <3>3, <4>1
    <3>. QED BY <3>2, <3>3
  <2>. QED BY <2>3, <2>4 DEF a
<1>8. \A a \in 1..Len(u) : a \in 1..Len(q) \/ \E b \in 1..Len(t) : a = Len(q) + b
  <2>. SUFFICES ASSUME NEW a \in 1..Len(u), ~(a \in 1..Len(q))
                PROVE  \E b \in 1..Len(t) : a = Len(q) + b
    OBVIOUS
  <2>1. a - Len(q) \in 1..Len(t) /\ a = Len(q) + (a - Len(q))
    BY <1>1, <1>3
  <2>. QED BY <2>1
<1>9. Carries(u, s2, o)
  BY <1>6, <1>7, <1>8 DEF Carries
<1>. QED BY <1>9 DEF u, s2

JoinOf(u, x, y) ==
    /\ u \in Seq(AnyByte) /\ Len(u) = Len(x) + Len(y)
    /\ Len(x) \in Nat /\ Len(y) \in Nat
    /\ \A a \in 1..Len(x) : u[a] = x[a]
    /\ \A a \in 1..Len(y) : u[Len(x) + a] = y[a]

LEMMA Joined ==
    ASSUME NEW x, x \in Seq(AnyByte), NEW y, y \in Seq(AnyByte)
    PROVE  JoinOf(x \o y, x, y)
BY DEF JoinOf

LEMMA Dropped ==
    ASSUME NEW q, q \in Seq(AnyByte), NEW d, d \in 0..Len(q)
    PROVE  RestOf(SubSeq(q, d + 1, Len(q)), q, d)
<1>. DEFINE n == Len(q)
            r == SubSeq(q, d + 1, n)
<1>1. d + 1 \in 1..(n + 1) /\ n \in 0..n /\ n \in Nat /\ d \in Nat /\ d <= n
  BY LenProperties
<1>2. r \in Seq(AnyByte)
  BY <1>1, PartOfSeq
<1>. HIDE DEF n
<1>3. Len(r) = n - d /\ \A a \in 1..(n - d) : r[a] = q[a + d]
  BY <1>1, <1>2
<1>. HIDE DEF r
<1>4. \A a \in 1..Len(r) : r[a] = q[a + d]
  BY <1>3
<1>5. RestOf(r, q, d)
  BY <1>2, <1>3, <1>4, Zenon DEF RestOf, n
<1>. QED BY <1>5 DEF r, n

LEMMA StreamIs == Bytes => JoinOf(Stream, inQueue, wire)
BY Joined DEF Stream, Bytes

LEMMA StreamTaken ==
    ASSUME Bytes, TakeByte
    PROVE  /\ RestOf(Stream', Stream, 1) /\ Stream[1] = Byte /\ Byte \in AnyByte
           /\ Len(Stream) \in Nat \ {0}
<1>1. /\ inQueue \in Seq(AnyByte) /\ inQueue # <<>> /\ inQueue' = Tail(inQueue)
      /\ wire' = wire /\ wire \in Seq(AnyByte)
  BY DEF TakeByte, Bytes
<1>2. /\ Len(inQueue) \in Nat \ {0} /\ Byte = inQueue[1] /\ Byte \in AnyByte
      /\ inQueue' \in Seq(AnyByte) /\ Len(inQueue') = Len(inQueue) - 1
      /\ \A a \in 1..(Len(inQueue) - 1) : inQueue'[a] = inQueue[a + 1]
  BY <1>1 DEF Byte
<1>3. /\ Stream \in Seq(AnyByte) /\ Len(Stream) = Len(inQueue) + Len(wire) /\ Len(wire) \in Nat
      /\ \A a \in 1..Len(inQueue) : Stream[a] = inQueue[a]
      /\ \A a \in 1..Len(wire) : Stream[Len(inQueue) + a] = wire[a]
  BY StreamIs DEF JoinOf
<1>4. /\ Stream' \in Seq(AnyByte) /\ Len(Stream') = Len(inQueue') + Len(wire)
      /\ \A a \in 1..Len(inQueue') : Stream'[a] = inQueue'[a]
      /\ \A a \in 1..Len(wire) : Stream'[Len(inQueue') + a] = wire[a]
  BY <1>1, <1>2 DEF Stream
<1>5. ASSUME NEW a \in 1..Len(Stream') PROVE Stream'[a] = Stream[a + 1]
  <2>1. CASE a \in 1..(Len(inQueue) - 1)
    <3>1. a + 1 \in 1..Len(inQueue) /\ a \in 1..Len(inQueue')
      BY <1>2, <2>1
    <3>. QED BY <1>2, <1>3, <1>4, <2>1, <3>1, Zenon
  <2>2. CASE ~(a \in 1..(Len(inQueue) - 1))
    <3>. DEFINE b == a - (Len(inQueue) - 1)
    <3>1. b \in 1..Len(wire) /\ Len(inQueue') + b = a /\ Len(inQueue) + b = a + 1
      BY <1>2, <1>3, <1>4, <2>2
    <3>. HIDE DEF b
    <3>2. Stream'[Len(inQueue') + b] = wire[b] /\ Stream[Len(inQueue) + b] = wire[b]
      BY <1>3, <1>4, <3>1, Zenon
    <3>. QED BY <3>1, <3>2, Zenon
  <2>. QED BY <2>1, <2>2
<1>6. Len(Stream') = Len(Stream) - 1 /\ Len(Stream) \in Nat \ {0} /\ 1 \in 0..Len(Stream)
      /\ 1 \in 1..Len(inQueue)
  BY <1>2, <1>3, <1>4
<1>7. RestOf(Stream', Stream, 1)
  BY <1>3, <1>4, <1>5, <1>6, Zenon DEF RestOf
<1>. QED BY <1>2, <1>3, <1>6, <1>7, Zenon

(* What read() brought moves to the queue; what the queue had no room for is *)
(* gone from the front.                                                      *)
LEMMA StreamRead ==
    ASSUME Bytes, NEW n \in 1..ReadSize, ReadBytes(n)
    PROVE  /\ Len(Stream) \in Nat \ {0} /\ overwritten \subseteq overwritten'
           /\ \E d : /\ RestOf(Stream', Stream, d)
                     /\ \A a \in 1..d : Stream[a].id \in overwritten'
<1>. DEFINE part == SubSeq(wire, 1, n)
            all == inQueue \o part
            d == IF Len(all) > QueueSize THEN Len(all) - QueueSize ELSE 0
            wl == Len(wire)
<1>1. /\ n \in 1..wl /\ wl \in Nat /\ wire \in Seq(AnyByte) /\ inQueue \in Seq(AnyByte)
      /\ Len(inQueue) \in Nat /\ QueueSize \in Nat
  BY ConstantsAssumption, LenProperties DEF ReadBytes, Bytes
<1>2. part \in Seq(AnyByte) /\ Len(part) = n /\ \A a \in 1..n : part[a] = wire[a]
  <2>1. 1 \in 1..(wl + 1) /\ n \in 0..wl /\ n \in 1..wl
    BY <1>1
  <2>2. part \in Seq(AnyByte)
    BY <1>1, <2>1, PartOfSeq
  <2>. QED BY <1>1, <2>1, <2>2
<1>3. /\ wire' \in Seq(AnyByte) /\ Len(wire') = wl - n
      /\ \A a \in 1..Len(wire') : wire'[a] = wire[a + n]
  <2>1. RestOf(wire', wire, n)
    <3>1. wire' = SubSeq(wire, n + 1, Len(wire)) /\ n \in 0..Len(wire)
      BY <1>1 DEF ReadBytes
    <3>. QED BY <1>1, <3>1, Dropped
  <2>. QED BY <2>1, Zenon DEF RestOf
<1>. HIDE DEF part
<1>4. /\ all \in Seq(AnyByte) /\ Len(all) = Len(inQueue) + n
      /\ \A a \in 1..Len(inQueue) : all[a] = inQueue[a]
      /\ \A a \in 1..n : all[Len(inQueue) + a] = part[a]
  <2>1. JoinOf(all, inQueue, part)
    BY <1>1, <1>2, Joined
  <2>. HIDE DEF all
  <2>. QED BY <1>2, <2>1, Zenon DEF JoinOf
<1>5. \/ Len(all) > QueueSize /\ inQueue' = SubSeq(all, Len(all) - QueueSize + 1, Len(all))
         /\ overwritten' = overwritten \union
               {b.id : b \in Range(SubSeq(all, 1, Len(all) - QueueSize))}
      \/ ~(Len(all) > QueueSize) /\ inQueue' = all /\ overwritten' = overwritten
  BY DEF ReadBytes, Kept, part
<1>. HIDE DEF all
<1>6. d \in 0..Len(all) /\ Len(all) \in Nat /\ (Len(all) > QueueSize => d \in 1..Len(all))
  BY <1>1, <1>4
<1>7. /\ inQueue' \in Seq(AnyByte) /\ Len(inQueue') = Len(all) - d
      /\ \A a \in 1..Len(inQueue') : inQueue'[a] = all[a + d]
  <2>1. CASE Len(all) > QueueSize
    <3>1. inQueue' = SubSeq(all, d + 1, Len(all))
      BY <1>5, <2>1
    <3>2. RestOf(inQueue', all, d)
      <4>. HIDE DEF d
      <4>. QED BY <1>4, <1>6, <3>1, Dropped
    <3>. HIDE DEF d
    <3>. QED BY <3>2 DEF RestOf
  <2>2. CASE ~(Len(all) > QueueSize)
    BY <1>4, <1>5, <1>6, <2>2
  <2>. QED BY <2>1, <2>2
<1>8. /\ Stream \in Seq(AnyByte) /\ Len(Stream) = Len(inQueue) + wl
      /\ \A a \in 1..Len(inQueue) : Stream[a] = inQueue[a]
      /\ \A a \in 1..wl : Stream[Len(inQueue) + a] = wire[a]
  BY StreamIs DEF JoinOf
<1>9. /\ Stream' \in Seq(AnyByte) /\ Len(Stream') = Len(inQueue') + Len(wire')
      /\ \A a \in 1..Len(inQueue') : Stream'[a] = inQueue'[a]
      /\ \A a \in 1..Len(wire') : Stream'[Len(inQueue') + a] = wire'[a]
  <2>1. JoinOf(Stream', inQueue', wire')
    BY <1>3, <1>7, Joined DEF Stream
  <2>. QED BY <2>1, Zenon DEF JoinOf
<1>. HIDE DEF d, wl
<1>10. \A a \in 1..Len(all) : Stream[a] = all[a]
  <2>. SUFFICES ASSUME NEW a \in 1..Len(all) PROVE Stream[a] = all[a]
    OBVIOUS
  <2>1. CASE a \in 1..Len(inQueue)
    BY <1>4, <1>8, <2>1, Zenon
  <2>2. CASE ~(a \in 1..Len(inQueue))
    <3>. DEFINE b == a - Len(inQueue)
    <3>1. b \in 1..n /\ b \in 1..wl /\ Len(inQueue) + b = a
      BY <1>1, <1>4, <2>2
    <3>. HIDE DEF b
    <3>2. Stream[Len(inQueue) + b] = wire[b] /\ all[Len(inQueue) + b] = part[b]
          /\ part[b] = wire[b]
      BY <1>2, <1>4, <1>8, <3>1, Zenon
    <3>. QED BY <3>1, <3>2, Zenon
  <2>. QED BY <2>1, <2>2
<1>11. ASSUME NEW a \in 1..Len(Stream') PROVE Stream'[a] = Stream[a + d]
  <2>1. CASE a \in 1..(Len(all) - d)
    <3>1. a + d \in 1..Len(all) /\ a \in 1..Len(inQueue')
      BY <1>6, <1>7, <2>1
    <3>. QED BY <1>7, <1>9, <1>10, <3>1, Zenon
  <2>2. CASE ~(a \in 1..(Len(all) - d))
    <3>. DEFINE b == a - (Len(all) - d)
    <3>1. /\ b \in 1..(wl - n) /\ b \in 1..Len(wire') /\ Len(inQueue') + b = a
          /\ b + n \in 1..wl /\ Len(inQueue) + (b + n) = a + d
      <4>1. /\ Len(Stream') = (Len(all) - d) + (wl - n) /\ Len(wire') = wl - n
            /\ Len(inQueue') = Len(all) - d /\ Len(all) = Len(inQueue) + n
            /\ Len(all) \in Nat /\ d \in 0..Len(all) /\ n \in 1..wl /\ wl \in Nat
            /\ Len(inQueue) \in Nat /\ ~(a \in 1..(Len(all) - d))
        BY <1>1, <1>3, <1>4, <1>6, <1>7, <1>9, <2>2 DEF wl
      <4>. QED BY <4>1
    <3>. HIDE DEF b
    <3>2. Stream'[Len(inQueue') + b] = wire'[b] /\ Stream[Len(inQueue) + (b + n)] = wire[b + n]
          /\ wire'[b] = wire[b + n]
      BY <1>3, <1>8, <1>9, <3>1, Zenon DEF wl
    <3>. QED BY <3>1, <3>2, Zenon
  <2>. QED BY <2>1, <2>2
<1>12. /\ Len(Stream') = Len(Stream) - d /\ d \in 0..Len(Stream) /\ Len(Stream) \in Nat \ {0}
       /\ 1 \in 1..Len(all)
  <2>1. /\ Len(Stream') = (Len(all) - d) + (wl - n) /\ Len(all) = Len(inQueue) + n
        /\ Len(all) \in Nat /\ d \in 0..Len(all) /\ n \in 1..wl /\ wl \in Nat
        /\ Len(inQueue) \in Nat /\ Len(Stream) = Len(inQueue) + wl
    BY <1>1, <1>3, <1>4, <1>6, <1>7, <1>8, <1>9 DEF wl
  <2>. QED BY <2>1
<1>13. RestOf(Stream', Stream, d)
  BY <1>8, <1>9, <1>11, <1>12, Zenon DEF RestOf
<1>14. ASSUME NEW a \in 1..d PROVE Stream[a].id \in overwritten'
  <2>. DEFINE lost == SubSeq(all, 1, Len(all) - QueueSize)
  <2>1. Len(all) > QueueSize /\ d = Len(all) - QueueSize /\ a \in 1..d /\ a \in 1..Len(all)
    BY <1>1, <1>6 DEF d
  <2>2. a \in DOMAIN lost /\ lost[a] = all[a]
    <3>1. lost \in Seq(AnyByte)
      <4>1. 1 \in 1..(Len(all) + 1) /\ Len(all) - QueueSize \in 0..Len(all)
        BY <1>1, <1>6, <2>1
      <4>. QED BY <1>4, <4>1, PartOfSeq
    <3>2. Len(lost) = Len(all) - QueueSize /\ \A k \in 1..(Len(all) - QueueSize) : lost[k] = all[k]
      BY <1>1, <1>4, <1>6, <2>1, <3>1
    <3>. HIDE DEF lost
    <3>. QED BY <2>1, <3>1, <3>2, LenProperties
  <2>3. Stream[a] = all[a]
    BY <1>10, <2>1, Zenon
  <2>4. overwritten' = overwritten \union {b.id : b \in Range(lost)}
    BY <1>5, <2>1
  <2>. HIDE DEF lost
  <2>. QED BY <2>2, <2>3, <2>4 DEF Range
<1>15. overwritten \subseteq overwritten'
  BY <1>5
<1>. QED BY <1>12, <1>13, <1>14, <1>15

Received == delivered \in Seq(Nat) /\ Range(delivered) \subseteq DOMAIN sent

(* The packages that have to come out next: one that follows a delivered one *)
(* and to which nothing happened, or has not been sent yet.                  *)
Due(i) ==
    /\ i # 1 => i - 1 \in Range(delivered)
    /\ i \notin Range(delivered)
    /\ i <= Len(sent) => SoundIn(sent, overwritten, i)

(* The next byte is byte q of package k, or is still to be sent.             *)
NextIs(k, q) ==
    IF k = Len(sent) + 1
       THEN q = 1 /\ Stream = <<>>
       ELSE Stream # <<>> /\ Stream[1].id = k /\ Stream[1].place = q

(* The parser holds the beginning of package k, and the rest of it is next.  *)
Holding(k) ==
    /\ Len(inBuf) = p
    /\ \A x \in 1..p : inBuf[x].id = k /\ inBuf[x].place = x
    /\ p >= 3 => omitStream = FALSE /\ declaredPayloadSize = sent[k].size

InStep(k) == NextIs(k, p + 1) /\ Holding(k)

Following == \A i \in 1..(Len(sent) + 1) : Due(i) => InStep(i)

Synchronized == Carries(Stream, sent, overwritten) /\ Received /\ Following

LEMMA SynchronizedInit == Init => Synchronized
<1>. SUFFICES ASSUME Init PROVE Synchronized
  OBVIOUS
<1>1. sent = <<>> /\ Stream = <<>> /\ delivered = <<>> /\ p = 0 /\ inBuf = <<>>
  BY DEF Init, Stream
<1>2. Len(<<>>) = 0 /\ <<>> \in Seq(Nat) /\ DOMAIN <<>> = {} /\ Range(<<>>) = {}
  BY DEF Range
<1>3. Carries(<<>>, sent, overwritten)
  BY <1>2 DEF Carries
<1>4. \A i \in 1..(Len(sent) + 1) : i = Len(sent) + 1
  BY <1>1, <1>2
<1>5. Following
  BY <1>1, <1>2, <1>4 DEF Following, InStep, NextIs, Holding
<1>6. Received
  BY <1>1, <1>2 DEF Received
<1>. QED BY <1>1, <1>3, <1>5, <1>6 DEF Synchronized

LEMMA DeviceLeaves ==
    ASSUME Device
    PROVE  UNCHANGED <<inQueue, p, inBuf, declaredPayloadSize, omitStream, delivered, overwritten>>
BY DEF Device, Send, SendDamaged, parser

(* The stream grows at its end by what the line made of a package.           *)
LEMMA DeviceSends ==
    ASSUME IInv, Device
    PROVE  \E r \in SentPackage, t \in Seq(AnyByte) :
              /\ sent' = Append(sent, r)
              /\ r.before = IF sent = <<>> THEN 0 ELSE Last(sent).before + Last(sent).size + 5
              /\ Piece(t, Len(sent) + 1, r.size, r.content)
              /\ r.damaged = FALSE => WholeIs(t, Len(sent) + 1, r.size)
              /\ Stream' = Stream \o t
<1>. DEFINE N == Len(sent) + 1
<1>1. PICK n \in 1..iDS, v \in {1, HEAD_1_} : Send(n, v) \/ SendDamaged(n, v)
  BY DEF Device
<1>2. /\ sent \in Seq(SentPackage) /\ N \in Nat
      /\ wire \in Seq(AnyByte) /\ inQueue \in Seq(AnyByte)
  BY DEF IInv, Bytes
<1>3. \E d, t : /\ d \in BOOLEAN /\ wire' = wire \o t
               /\ sent' = Append(sent, Record(n, v, d))
               /\ Piece(t, N, n, v) /\ (d = FALSE => WholeIs(t, N, n))
  <2>. DEFINE pkg == Package(N, n, v)
  <2>1. WholeIs(pkg, N, n) /\ Piece(pkg, N, n, v)
    BY <1>2, PackageIsWhole
  <2>2. CASE Send(n, v)
    BY <2>1, <2>2 DEF Send
  <2>. HIDE DEF pkg
  <2>3. CASE SendDamaged(n, v)
    <3>1. PICK t \in Damages(pkg) : wire' = wire \o t
      BY <2>3 DEF SendDamaged, pkg
    <3>2. Piece(t, N, n, v)
      BY <1>2, <2>1, <3>1, DamagesArePieces
    <3>3. sent' = Append(sent, Record(n, v, TRUE))
      BY <2>3 DEF SendDamaged
    <3>. QED BY <3>1, <3>2, <3>3
  <2>. QED BY <1>1, <2>2, <2>3
<1>4. PICK d, t : /\ d \in BOOLEAN /\ wire' = wire \o t
                  /\ sent' = Append(sent, Record(n, v, d))
                  /\ Piece(t, N, n, v) /\ (d = FALSE => WholeIs(t, N, n))
  BY <1>3, Zenon
<1>. HIDE DEF N
<1>5. t \in Seq(AnyByte)
  BY <1>4 DEF Piece
<1>6. Stream' = Stream \o t
  <2>1. Stream' = inQueue \o (wire \o t)
    BY <1>4, DeviceLeaves DEF Stream
  <2>2. inQueue \o (wire \o t) = (inQueue \o wire) \o t
    <3>1. inQueue \in Seq(AnyByte) /\ wire \in Seq(AnyByte)
      BY <1>2
    <3>. QED BY <1>5, <3>1
  <2>. QED BY <2>1, <2>2 DEF Stream
<1>. DEFINE r == Record(n, v, d)
<1>. d \in BOOLEAN
  BY <1>4
<1>7. /\ r \in SentPackage /\ r.size = n /\ r.content = v /\ r.damaged = d
      /\ r.before = IF sent = <<>> THEN 0 ELSE Last(sent).before + Last(sent).size + 5
  BY <1>2, RecordIsPackage, SizesAre DEF Record
<1>8. sent' = Append(sent, r)
  BY <1>4
<1>. HIDE DEF r
<1>. QED BY <1>4, <1>5, <1>6, <1>7, <1>8 DEF N

LEMMA DeviceKeepsStep ==
    ASSUME IInv, Synchronized, Device
    PROVE  Synchronized'
<1>. DEFINE N == Len(sent) + 1
<1>2. /\ sent \in Seq(SentPackage) /\ Len(sent) \in Nat /\ DOMAIN sent = 1..Len(sent)
      /\ N \in Nat \ {0} /\ wire \in Seq(AnyByte) /\ inQueue \in Seq(AnyByte)
      /\ p \in Nat
  BY LenProperties DEF IInv, Bytes, Parsing
<1>4. PICK r \in SentPackage, t \in Seq(AnyByte) :
              /\ sent' = Append(sent, r)
              /\ Piece(t, N, r.size, r.content) /\ (r.damaged = FALSE => WholeIs(t, N, r.size))
              /\ Stream' = Stream \o t
  BY DeviceSends
<1>. DEFINE n == r.size
            d == r.damaged
<1>5. UNCHANGED <<inQueue, p, inBuf, declaredPayloadSize, omitStream, delivered, overwritten>>
  BY DeviceLeaves
<1>6. t \in Seq(AnyByte) /\ Len(t) \in Nat \ {0} /\ d \in BOOLEAN
  BY <1>4 DEF Piece, SentPackage
<1>7. Stream \in Seq(AnyByte) /\ Stream' = Stream \o t
  <2>1. Stream \in Seq(AnyByte)
    BY StreamIs DEF IInv, JoinOf
  <2>. QED BY <1>4, <2>1
<1>8. Carries(Stream', sent', overwritten')
  <2>1. Carries(Stream, sent, overwritten)
    BY DEF Synchronized
  <2>. HIDE DEF N
  <2>2. Carries(Stream \o t, Append(sent, r), overwritten)
    BY <1>2, <1>4, <1>7, <2>1, CarriesPiece, Zenon DEF N
  <2>. QED BY <1>4, <1>5, <1>7, <2>2
<1>9. /\ Len(sent') = N /\ DOMAIN sent' = 1..N
      /\ \A i \in 1..Len(sent) : sent'[i] = sent[i]
      /\ sent'[N].damaged = d
  BY <1>2, <1>4
<1>10. Received'
  <2>1. delivered' \in Seq(Nat) /\ Range(delivered') \subseteq 1..Len(sent)
    BY <1>2, <1>5 DEF Synchronized, Received
  <2>. QED BY <1>2, <1>9, <2>1 DEF Received
<1>11. JoinOf(Stream', Stream, t)
  BY <1>6, <1>7, Joined
<1>12. ASSUME NEW i \in 1..(N + 1), Due(i)'
       PROVE  InStep(i)'
  <2>1. i \in 1..N
    <3>1. i = 1 \/ i - 1 \in 1..Len(sent)
      BY <1>2, <1>5, <1>12 DEF Due, Synchronized, Received
    <3>. QED BY <1>2, <3>1
  <2>2. SoundIn(sent', overwritten, i)
    BY <1>2, <1>5, <1>9, <1>12, <2>1 DEF Due
  <2>3. Due(i)
    <3>1. i <= Len(sent) => SoundIn(sent, overwritten, i)
      BY <1>2, <1>9, <2>1, <2>2 DEF SoundIn
    <3>. QED BY <1>5, <1>12, <3>1 DEF Due
  <2>4. InStep(i)
    BY <2>1, <2>3 DEF Synchronized, Following
  <2>5. /\ Len(inBuf') = p'
        /\ \A k \in 1..p' : inBuf'[k].id = i /\ inBuf'[k].place = k
    BY <1>5, <2>4 DEF InStep, NextIs, Holding
  <2>6. CASE i = N
    <3>1. p = 0 /\ Stream = <<>>
      BY <1>2, <2>4, <2>6 DEF InStep, NextIs, Holding
    <3>2. WholeIs(t, N, n)
      BY <1>4, <1>9, <2>2, <2>6 DEF SoundIn
    <3>3. 1 \in 1..Len(t) /\ Len(<<>>) = 0
      BY <1>6
    <3>4. Stream' = t
      BY <1>6, <1>7, <3>1
    <3>5. Stream' # <<>> /\ Stream'[1].id = i /\ Stream'[1].place = 1
      <4>1. t[1].id = N /\ t[1].place = 1
        BY <3>2, <3>3, Zenon DEF WholeIs
      <4>2. t # <<>>
        BY <3>3
      <4>. QED BY <2>6, <3>4, <4>1, <4>2
    <3>6. i # N + 1
      BY <1>2, <2>6
    <3>7. p' = 0 /\ p' + 1 = 1 /\ ~(p' >= 3)
      BY <1>5, <3>1
    <3>. QED BY <1>9, <2>5, <3>5, <3>6, <3>7 DEF InStep, NextIs, Holding
  <2>7. CASE i # N
    <3>1. Stream # <<>> /\ Stream[1].id = i /\ Stream[1].place = p + 1
      BY <2>4, <2>7 DEF InStep, NextIs, Holding
    <3>2. i \in 1..Len(sent) /\ i # N + 1
      BY <1>2, <2>1, <2>7
    <3>3. 1 \in 1..Len(Stream)
      BY <1>7, <3>1
    <3>4. Stream'[1] = Stream[1]
      BY <1>11, <3>3, Zenon DEF JoinOf
    <3>5. Stream' # <<>>
      BY <1>7, <1>6, <3>3
    <3>6. p >= 3 => omitStream = FALSE /\ declaredPayloadSize = sent[i].size
      BY <2>4 DEF InStep, NextIs, Holding
    <3>7. sent'[i] = sent[i] /\ i # Len(sent') + 1
      BY <1>9, <3>2
    <3>8. p' = p /\ omitStream' = omitStream /\ declaredPayloadSize' = declaredPayloadSize
      BY <1>5
    <3>. QED BY <2>5, <3>1, <3>4, <3>5, <3>6, <3>7, <3>8 DEF InStep, NextIs, Holding
  <2>. QED BY <2>6, <2>7
<1>13. Following'
  <2>1. Len(sent') + 1 = N + 1
    BY <1>9
  <2>. HIDE DEF N
  <2>. QED BY <1>12, <2>1 DEF Following
<1>. QED BY <1>8, <1>10, <1>13 DEF Synchronized

LEMMA ReadKeepsStep ==
    ASSUME IInv, Synchronized, NEW n \in 1..ReadSize, ReadBytes(n)
    PROVE  Synchronized'
<1>1. UNCHANGED <<sent, p, inBuf, declaredPayloadSize, omitStream, delivered>>
  BY DEF ReadBytes, parser
<1>2. /\ Len(Stream) \in Nat \ {0} /\ overwritten \subseteq overwritten'
      /\ \E d : RestOf(Stream', Stream, d) /\ \A a \in 1..d : Stream[a].id \in overwritten'
  BY StreamRead DEF IInv
<1>3. PICK d : RestOf(Stream', Stream, d) /\ \A a \in 1..d : Stream[a].id \in overwritten'
  BY <1>2
<1>4. Carries(Stream', sent', overwritten')
  <2>1. Carries(Stream, sent, overwritten)
    BY DEF Synchronized
  <2>. QED BY <1>1, <1>2, <1>3, <2>1, CarriesRest
<1>5. Len(sent) \in Nat
  BY DEF IInv, Bytes
<1>6. ASSUME NEW i \in 1..(Len(sent) + 1), Due(i)'
      PROVE  InStep(i)'
  <2>1. Due(i)
    BY <1>1, <1>2, <1>6 DEF Due, SoundIn
  <2>2. InStep(i)
    BY <2>1 DEF Synchronized, Following
  <2>3. Stream # <<>>
    BY <1>2
  <2>4. i \in 1..Len(sent) /\ i # Len(sent) + 1 /\ Stream[1].id = i
        /\ Stream[1].place = p + 1
    BY <1>5, <2>2, <2>3 DEF InStep, NextIs, Holding
  <2>5. i \notin overwritten'
    BY <1>1, <1>5, <1>6, <2>4 DEF Due, SoundIn
  <2>6. d = 0
    <3>1. ~(1 \in 1..d)
      BY <1>3, <2>4, <2>5
    <3>2. d \in Nat
      BY <1>2, <1>3 DEF RestOf
    <3>. QED BY <3>1, <3>2
  <2>7. Stream'[1] = Stream[1] /\ Stream' # <<>>
    <3>1. Len(Stream') = Len(Stream) /\ \A a \in 1..Len(Stream') : Stream'[a] = Stream[a]
      <4>1. Len(Stream') = Len(Stream) - 0 /\ \A a \in 1..Len(Stream') : Stream'[a] = Stream[a + 0]
        BY <1>3, <2>6 DEF RestOf
      <4>. QED BY <1>2, <4>1
    <3>2. 1 \in 1..Len(Stream') /\ Len(<<>>) = 0
      BY <1>2, <3>1
    <3>. QED BY <3>1, <3>2
  <2>. QED BY <1>1, <2>2, <2>4, <2>7 DEF InStep, NextIs, Holding
<1>7. Following'
  BY <1>1, <1>6 DEF Following
<1>8. Received'
  BY <1>1 DEF Synchronized, Received
<1>. QED BY <1>4, <1>7, <1>8 DEF Synchronized

(* What AssembleInputPackage() does with a byte.                             *)
Parse == SeekHead \/ MatchHead \/ TakeSize \/ StoreByte \/ CompleteGood \/ CompleteBad \/ OmitByte

LEMMA ParseTakes ==
    ASSUME Parse
    PROVE  TakeByte /\ UNCHANGED <<wire, sent, overwritten>>
BY DEF Parse, SeekHead, MatchHead, TakeSize, StoreByte, CompleteGood, CompleteBad, OmitByte,
       TakeByte

Carried == Carries(Stream, sent, overwritten)

(* A byte of a sound package is taken: the next one is next, or the next     *)
(* package.                                                                  *)
LEMMA HeadMoves ==
    ASSUME IInv, Carried, TakeByte, NEW k \in 1..(Len(sent) + 1), NEW q \in Nat, NextIs(k, q),
           k <= Len(sent) => SoundIn(sent, overwritten, k)
    PROVE  /\ k \in 1..Len(sent) /\ k \in DOMAIN sent /\ sent[k].size \in 1..iDS
           /\ Byte.id = k /\ Byte.place = q /\ q \in 1..(sent[k].size + 5)
           /\ q = 1 => Byte.value = HEAD_1_
           /\ q = 2 => Byte.value = HEAD_2_
           /\ q = 3 => Byte.value = sent[k].size
           /\ q > 3 => Byte.value = sent[k].content
           /\ q # sent[k].size + 5 => NextIs(k, q + 1)'
<1>1. /\ RestOf(Stream', Stream, 1) /\ Stream[1] = Byte /\ Len(Stream) \in Nat \ {0}
      /\ Stream # <<>>
  <2>1. /\ RestOf(Stream', Stream, 1) /\ Stream[1] = Byte /\ Len(Stream) \in Nat \ {0}
    BY StreamTaken DEF IInv
  <2>. QED BY <2>1
<1>2. sent \in Seq(SentPackage) /\ Len(sent) \in Nat /\ DOMAIN sent = 1..Len(sent)
  BY LenProperties DEF IInv, Bytes
<1>3. k # Len(sent) + 1 /\ Byte.id = k /\ Byte.place = q
  BY <1>1 DEF NextIs
<1>4. k \in 1..Len(sent) /\ k \in DOMAIN sent /\ k # 0
  BY <1>2, <1>3
<1>5. sent[k].size \in 1..iDS
  <2>1. sent[k] \in SentPackage
    BY <1>2, <1>4
  <2>. QED BY <2>1 DEF SentPackage
<1>6. ByteOf(Byte, sent) /\ FollowedAt(Stream, sent, overwritten, 1)
  <2>1. 1 \in 1..Len(Stream)
    BY <1>1
  <2>. QED BY <1>1, <2>1 DEF Carried, Carries
<1>7. /\ q \in 1..(sent[k].size + 5)
      /\ q = 1 => Byte.value = HEAD_1_
      /\ q = 2 => Byte.value = HEAD_2_
      /\ q = 3 => Byte.value = sent[k].size
      /\ q > 3 => Byte.value = sent[k].content
  BY <1>3, <1>4, <1>6 DEF ByteOf
<1>8. ASSUME q # sent[k].size + 5 PROVE NextIs(k, q + 1)'
  <2>1. q < sent[k].size + 5
    BY <1>5, <1>7, <1>8
  <2>2. SoundIn(sent, overwritten, k)
    BY <1>2, <1>4
  <2>3. /\ 1 < Len(Stream) /\ Stream[1 + 1].id = k /\ Stream[1 + 1].place = q + 1
    BY <1>1, <1>3, <1>4, <1>6, <2>1, <2>2, Zenon DEF FollowedAt
  <2>4. Len(Stream') = Len(Stream) - 1 /\ \A a \in 1..Len(Stream') : Stream'[a] = Stream[a + 1]
    BY <1>1 DEF RestOf
  <2>5. 1 \in 1..Len(Stream') /\ Len(<<>>) = 0
    BY <1>1, <2>3, <2>4
  <2>6. Stream'[1] = Stream[1 + 1] /\ Stream' # <<>>
    <3>1. Stream'[1] = Stream[1 + 1]
      BY <2>4, <2>5, Zenon
    <3>. QED BY <2>5, <3>1
  <2>7. sent' = sent
    BY DEF TakeByte
  <2>. QED BY <1>3, <2>3, <2>6, <2>7 DEF NextIs
<1>. QED BY <1>3, <1>4, <1>5, <1>7, <1>8

LEMMA NextAfterLast ==
    ASSUME IInv, Carried, TakeByte, NEW k \in DOMAIN sent, Byte.id = k,
           Byte.place = sent[k].size + 5,
           k + 1 <= Len(sent) => SoundIn(sent, overwritten, k + 1)
    PROVE  NextIs(k + 1, 1)'
<1>1. /\ RestOf(Stream', Stream, 1) /\ Stream[1] = Byte /\ Len(Stream) \in Nat \ {0}
  BY StreamTaken DEF IInv
<1>2. /\ sent \in Seq(SentPackage) /\ Len(sent) \in Nat /\ k \in 1..Len(sent) /\ sent' = sent
      /\ sent[k].size + 5 \in Nat
  <2>1. sent \in Seq(SentPackage) /\ sent[k] \in SentPackage
    BY DEF IInv, Bytes
  <2>2. sent[k].size \in 1..iDS
    BY <2>1 DEF SentPackage
  <2>3. Len(sent) \in Nat /\ k \in 1..Len(sent)
    BY <2>1, LenProperties
  <2>. QED BY <2>1, <2>2, <2>3, ConstantsAssumption DEF TakeByte
<1>3. FollowedAt(Stream, sent, overwritten, 1)
  <2>1. 1 \in 1..Len(Stream)
    BY <1>1
  <2>. QED BY <2>1 DEF Carried, Carries
<1>4. IF 1 = Len(Stream)
         THEN k = Len(sent)
         ELSE /\ k < Len(sent)
              /\ SoundIn(sent, overwritten, k + 1) => /\ Stream[1 + 1].id = k + 1
                                                      /\ Stream[1 + 1].place = 1
  <2>1. ~(Byte.place < sent[k].size + 5)
    BY <1>2
  <2>. QED BY <1>1, <1>3, <2>1 DEF FollowedAt
<1>5. /\ Len(Stream') = Len(Stream) - 1 /\ Stream' \in Seq(AnyByte) /\ Len(<<>>) = 0
      /\ \A a \in 1..Len(Stream') : Stream'[a] = Stream[a + 1]
  BY <1>1 DEF RestOf
<1>6. CASE 1 = Len(Stream)
  <2>1. k + 1 = Len(sent) + 1 /\ Stream' = <<>>
    <3>1. Len(Stream') = 0 /\ Stream' \in Seq(AnyByte)
      <4>1. Len(Stream') = Len(Stream) - 1 /\ Stream' \in Seq(AnyByte)
        BY <1>5
      <4>. QED BY <1>6, <4>1
    <3>2. k = Len(sent)
      BY <1>4, <1>6
    <3>. QED BY <3>1, <3>2
  <2>. QED BY <1>2, <2>1 DEF NextIs
<1>7. CASE 1 # Len(Stream)
  <2>1. k + 1 <= Len(sent) /\ k + 1 # Len(sent) + 1
    BY <1>2, <1>4, <1>7
  <2>2. Stream[1 + 1].id = k + 1 /\ Stream[1 + 1].place = 1
    BY <1>4, <1>7, <2>1
  <2>3. 1 \in 1..Len(Stream')
    BY <1>1, <1>5, <1>7
  <2>4. Stream'[1] = Stream[1 + 1] /\ Stream' # <<>>
    <3>1. Stream'[1] = Stream[1 + 1]
      BY <1>5, <2>3, Zenon
    <3>. QED BY <1>5, <2>3, <3>1
  <2>. QED BY <1>2, <2>1, <2>2, <2>4 DEF NextIs
<1>. QED BY <1>6, <1>7

(* The parser that holds the beginning of a package goes on with it, and     *)
(* delivers it with its last byte.                                           *)
LEMMA HoldingAdvances ==
    ASSUME IInv, Carried, Parse, NEW k \in 1..(Len(sent) + 1), InStep(k),
           k <= Len(sent) => SoundIn(sent, overwritten, k)
    PROVE  /\ k \in DOMAIN sent /\ Byte.id = k /\ Byte.place = p + 1
           /\ IF p + 1 # sent[k].size + 5
                 THEN InStep(k)' /\ delivered' = delivered
                 ELSE CompleteGood
<1>. DEFINE n == sent[k].size
<1>1. /\ k \in 1..Len(sent) /\ k \in DOMAIN sent /\ n \in 1..iDS
      /\ Byte.id = k /\ Byte.place = p + 1 /\ p + 1 \in 1..(n + 5)
      /\ p + 1 = 1 => Byte.value = HEAD_1_
      /\ p + 1 = 2 => Byte.value = HEAD_2_
      /\ p + 1 = 3 => Byte.value = n
      /\ p + 1 # n + 5 /\ p' = p + 1 => NextIs(k, p + 1)'
  <2>1. PICK q \in Nat : q = p + 1
    BY DEF IInv, Parsing
  <2>2. NextIs(k, q) /\ TakeByte
    BY <2>1, ParseTakes DEF InStep
  <2>3. /\ k \in 1..Len(sent) /\ k \in DOMAIN sent /\ n \in 1..iDS
        /\ Byte.id = k /\ Byte.place = q /\ q \in 1..(n + 5)
        /\ q = 1 => Byte.value = HEAD_1_
        /\ q = 2 => Byte.value = HEAD_2_
        /\ q = 3 => Byte.value = n
        /\ q # n + 5 => NextIs(k, q + 1)'
    BY <2>2, HeadMoves
  <2>. HIDE DEF n
  <2>4. p' = p + 1 => (NextIs(k, q + 1)' => NextIs(k, p + 1)')
    BY <2>1 DEF NextIs
  <2>. QED BY <2>1, <2>3, <2>4
<1>2. /\ Len(inBuf) = p /\ \A x \in 1..p : inBuf[x].id = k /\ inBuf[x].place = x
      /\ p >= 3 => omitStream = FALSE /\ declaredPayloadSize = n
      /\ p \in Nat /\ inBuf \in Seq(AnyByte) /\ Byte \in AnyByte /\ sent' = sent
  BY ParseTakes, Taken DEF InStep, Holding, IInv, Bytes, Parsing
<1>. HIDE DEF n
<1>3. /\ n \in Nat \ {0} /\ n <= iDS /\ n <= MAX_PAYLOAD_SIZE_ /\ ~(n > 127)
      /\ iDS \in Nat /\ MAX_PAYLOAD_SIZE_ \in Nat /\ p + 1 <= n + 5
  BY <1>1, <1>2, ConstantsAssumption
<1>4. ASSUME p + 1 # n + 5, Store, delivered' = delivered,
             p + 1 >= 3 => omitStream' = FALSE /\ declaredPayloadSize' = n
      PROVE  InStep(k)' /\ delivered' = delivered
  <2>0. NextIs(k, p + 1)'
    BY <1>1, <1>4 DEF Store
  <2>1. p' = p + 1 /\ inBuf' = Append(inBuf, Byte)
    BY <1>4 DEF Store
  <2>2. Len(inBuf') = p + 1 /\ inBuf'[p + 1] = Byte /\ \A x \in 1..p : inBuf'[x] = inBuf[x]
    BY <1>2, <2>1
  <2>3. \A x \in 1..(p + 1) : x \in 1..p \/ x = p + 1
    BY <1>2
  <2>4. \A x \in 1..(p + 1) : inBuf'[x].id = k /\ inBuf'[x].place = x
    BY <1>1, <1>2, <2>2, <2>3, Zenon
  <2>5. /\ Len(inBuf') = p'
        /\ \A x \in 1..p' : inBuf'[x].id = k /\ inBuf'[x].place = x
        /\ p' >= 3 => omitStream' = FALSE /\ declaredPayloadSize' = sent'[k].size
    BY <1>2, <1>4, <2>1, <2>2, <2>4 DEF n
  <2>. QED BY <1>4, <2>0, <2>5 DEF InStep, Holding
<1>5. CASE p < 3
  <2>1. p + 1 # n + 5
    BY <1>2, <1>3, <1>5
  <2>2. SeekHead \/ MatchHead \/ TakeSize
    BY <1>2, <1>5, SizesAre
       DEF Parse, StoreByte, CompleteGood, CompleteBad, OmitByte, InPayload
  <2>3. CASE SeekHead \/ MatchHead
    <3>1. Store /\ p \in {0, 1} /\ delivered' = delivered
      BY <1>1, <2>3 DEF SeekHead, MatchHead
    <3>2. ~(p + 1 >= 3)
      BY <3>1
    <3>. QED BY <1>1, <1>4, <2>1, <3>1, <3>2 DEF n
  <2>4. CASE TakeSize
    <3>1. p = 2 /\ delivered' = delivered /\ Byte.value = n
      BY <1>1, <2>4, SizesAre DEF TakeSize
    <3>2. Int8(n) = n /\ ~BadSize(n) /\ TooLarge(n) = FALSE
      BY <1>3 DEF Int8, BadSize, TooLarge
    <3>3. declaredPayloadSize' = n /\ Store /\ omitStream' = FALSE
      BY <2>4, <3>1, <3>2 DEF TakeSize
    <3>. QED BY <1>1, <1>4, <2>1, <3>1, <3>3 DEF n
  <2>. QED BY <2>2, <2>3, <2>4
<1>6. CASE ~(p < 3)
  <2>1. /\ omitStream = FALSE /\ declaredPayloadSize = n
        /\ (Complete <=> p + 1 = n + 5) /\ p >= 3
    <3>1. p >= 3
      BY <1>2, <1>6
    <3>. QED BY <1>2, <1>3, <3>1, SizesAre DEF Complete
  <2>2. StoreByte \/ CompleteGood \/ CompleteBad
    BY <2>1, SizesAre DEF Parse, SeekHead, MatchHead, TakeSize, OmitByte
  <2>3. CASE p + 1 # n + 5
    <3>1. StoreByte
      BY <2>1, <2>2, <2>3 DEF CompleteGood, CompleteBad
    <3>. QED BY <1>1, <1>4, <2>1, <2>3, <3>1 DEF StoreByte, n
  <2>4. CASE p + 1 = n + 5
    <3>. DEFINE all == Append(inBuf, Byte)
    <3>1. Len(all) = p + 1 /\ DOMAIN all = 1..(p + 1)
          /\ all[p + 1] = Byte /\ \A x \in 1..p : all[x] = inBuf[x]
      BY <1>2
    <3>. HIDE DEF all
    <3>2. (\A x \in 1..(p + 1) : x \in 1..p \/ x = p + 1) /\ 1 \in 1..(p + 1)
      BY <1>2
    <3>3. \A x \in 1..(p + 1) : all[x].id = k /\ all[x].place = x
      BY <1>1, <1>2, <3>1, <3>2, Zenon
    <3>4. all[1].id = k
      BY <3>2, <3>3, Zenon
    <3>5. Intact(all)
      BY <2>4, <3>1, <3>3, <3>4, SizesAre DEF Intact, n
    <3>6. CompleteGood
      BY <2>1, <2>2, <2>4, <3>5 DEF StoreByte, CompleteBad, all
    <3>. QED BY <1>1, <2>4, <3>6 DEF n
  <2>. QED BY <2>3, <2>4
<1>. QED BY <1>5, <1>6

(* A package is delivered with its last byte.                                *)
LEMMA DeliveredIsComplete ==
    ASSUME IInv, Carried, CompleteGood
    PROVE  /\ Byte.id \in DOMAIN sent /\ Byte.id \in Nat
           /\ Byte.place = sent[Byte.id].size + 5
           /\ delivered' = Append(delivered, Byte.id) /\ p' = 0 /\ inBuf' = <<>>
<1>. DEFINE all == Append(inBuf, Byte)
            j == Byte.id
<1>1. /\ TakeByte /\ Intact(all) /\ delivered' = Append(delivered, j)
      /\ p' = 0 /\ inBuf' = <<>>
  BY DEF CompleteGood, Restart
<1>2. /\ Stream[1] = Byte /\ Len(Stream) \in Nat \ {0} /\ Byte \in AnyByte /\ j \in Nat
  <2>1. Stream[1] = Byte /\ Len(Stream) \in Nat \ {0} /\ Byte \in AnyByte
    BY <1>1, StreamTaken DEF IInv
  <2>. QED BY <2>1 DEF AnyByte
<1>3. /\ Len(all) = Len(inBuf) + 1 /\ DOMAIN all = 1..(Len(inBuf) + 1)
      /\ all[Len(inBuf) + 1] = Byte /\ Len(inBuf) \in Nat
  BY <1>2 DEF IInv, Bytes
<1>. HIDE DEF all
<1>4. Len(inBuf) + 1 \in DOMAIN all
  BY <1>3
<1>5. Byte.place = Len(all) /\ all[1].id = j /\ Len(all) = sent[all[1].id].size + 5
  BY <1>1, <1>3, <1>4, SizesAre DEF Intact
<1>6. ByteOf(Byte, sent)
  <2>1. 1 \in 1..Len(Stream)
    BY <1>2
  <2>. QED BY <1>2, <2>1 DEF Carried, Carries
<1>7. j \in DOMAIN sent
  <2>1. Byte.place # 0
    BY <1>3, <1>5
  <2>. QED BY <1>6, <2>1 DEF ByteOf
<1>. QED BY <1>1, <1>2, <1>5, <1>7

LEMMA RangeAppend ==
    ASSUME NEW d, d \in Seq(Nat), NEW e \in Nat
    PROVE  Append(d, e) \in Seq(Nat) /\ Range(Append(d, e)) = Range(d) \union {e}
<1>1. /\ Append(d, e) \in Seq(Nat) /\ DOMAIN d = 1..Len(d)
      /\ DOMAIN Append(d, e) = 1..(Len(d) + 1) /\ Len(d) \in Nat
      /\ \A x \in 1..Len(d) : Append(d, e)[x] = d[x]
      /\ Append(d, e)[Len(d) + 1] = e
  OBVIOUS
<1>2. \A x : x \in 1..(Len(d) + 1) <=> x \in 1..Len(d) \/ x = Len(d) + 1
  BY <1>1
<1>. QED BY <1>1, <1>2, Zenon DEF Range

(* Only a complete package is added to what was delivered.                   *)
LEMMA DeliveredGrows ==
    ASSUME IInv, Synchronized, Parse
    PROVE  /\ Received' /\ Range(delivered) \subseteq Range(delivered')
           /\ CompleteGood => Range(delivered') = Range(delivered) \union {Byte.id}
           /\ ~CompleteGood => delivered' = delivered
<1>1. delivered \in Seq(Nat) /\ Range(delivered) \subseteq DOMAIN sent /\ sent' = sent
  BY ParseTakes DEF Synchronized, Received
<1>2. CASE CompleteGood
  <2>1. /\ Byte.id \in DOMAIN sent /\ Byte.id \in Nat
        /\ delivered' = Append(delivered, Byte.id)
    BY <1>2, DeliveredIsComplete DEF Synchronized, Carried
  <2>2. /\ delivered' \in Seq(Nat) /\ Range(delivered') = Range(delivered) \union {Byte.id}
    BY <1>1, <2>1, RangeAppend
  <2>. QED BY <1>1, <1>2, <2>1, <2>2 DEF Received
<1>3. CASE ~CompleteGood
  <2>1. delivered' = delivered
    BY <1>3 DEF Parse, SeekHead, MatchHead, TakeSize, StoreByte, CompleteBad, OmitByte
  <2>. QED BY <1>1, <1>3, <2>1 DEF Received
<1>. QED BY <1>2, <1>3

LEMMA TakingKeepsCarries ==
    ASSUME IInv, Carried, TakeByte
    PROVE  Carried'
<1>1. RestOf(Stream', Stream, 1)
  BY StreamTaken DEF IInv
<1>2. sent' = sent /\ overwritten' = overwritten
  BY DEF TakeByte
<1>3. Carries(Stream, sent, overwritten)
  BY DEF Carried
<1>. QED BY <1>1, <1>2, <1>3, CarriesRest DEF Carried

LEMMA ParseKeepsStep ==
    ASSUME IInv, Synchronized, Parse
    PROVE  Synchronized'
<1>1. TakeByte /\ Carried /\ sent' = sent /\ overwritten' = overwritten
  BY ParseTakes DEF Synchronized, Carried
<1>2. Carried'
  BY <1>1, TakingKeepsCarries
<1>3. /\ Received' /\ Range(delivered) \subseteq Range(delivered')
      /\ CompleteGood => Range(delivered') = Range(delivered) \union {Byte.id}
      /\ ~CompleteGood => delivered' = delivered
  BY DeliveredGrows
<1>4. Len(sent) \in Nat /\ DOMAIN sent = 1..Len(sent)
  BY LenProperties DEF IInv, Bytes
<1>5. ASSUME NEW i \in 1..(Len(sent) + 1), Due(i)' PROVE InStep(i)'
  <2>1. /\ i \notin Range(delivered) /\ i \notin Range(delivered')
        /\ i # 1 => i - 1 \in Range(delivered')
        /\ i <= Len(sent) => SoundIn(sent, overwritten, i)
    BY <1>1, <1>3, <1>5 DEF Due
  <2>2. CASE Due(i)
    <3>1. InStep(i)
      BY <2>2 DEF Synchronized, Following
    <3>2. /\ Byte.id = i
          /\ IF p + 1 # sent[i].size + 5
                THEN InStep(i)' /\ delivered' = delivered
                ELSE CompleteGood
      BY <1>1, <2>1, <3>1, HoldingAdvances
    <3>3. ~CompleteGood
      BY <1>3, <2>1, <3>2
    <3>. QED BY <3>2, <3>3
  <2>3. CASE ~Due(i)
    <3>1. i # 1 /\ i - 1 \in Range(delivered') /\ i - 1 \notin Range(delivered)
      BY <2>1, <2>3 DEF Due
    <3>2. CompleteGood /\ i - 1 = Byte.id
      BY <1>3, <3>1
    <3>3. /\ Byte.id \in DOMAIN sent /\ Byte.place = sent[Byte.id].size + 5
          /\ p' = 0 /\ inBuf' = <<>>
      BY <1>1, <3>2, DeliveredIsComplete
    <3>4. i = Byte.id + 1
      BY <1>4, <3>2, <3>3
    <3>5. NextIs(i, 1)'
      BY <1>1, <2>1, <3>3, <3>4, NextAfterLast
    <3>. QED BY <3>3, <3>5 DEF InStep, Holding
  <2>. QED BY <2>2, <2>3
<1>6. Following'
  BY <1>1, <1>5 DEF Following
<1>. QED BY <1>2, <1>3, <1>6 DEF Synchronized, Carried

LEMMA SynchronizedHolds == Spec => [](IInv /\ Synchronized)
<1>1. ASSUME Synchronized, NothingLeft \/ Publish \/ UNCHANGED vars
      PROVE  Synchronized'
  <2>1. UNCHANGED <<wire, sent, inQueue, p, inBuf, declaredPayloadSize, omitStream,
                    delivered, overwritten>>
    BY <1>1 DEF NothingLeft, Publish, vars, parser
  <2>2. Stream' = Stream
    BY <2>1 DEF Stream
  <2>3. \A i : (Due(i)' <=> Due(i)) /\ (InStep(i)' <=> InStep(i))
    BY <2>1, <2>2 DEF Due, InStep, NextIs, Holding
  <2>4. Following' /\ Received'
    BY <1>1, <2>1, <2>3 DEF Following, Synchronized, Received
  <2>5. Carries(Stream, sent, overwritten)'
    BY <1>1, <2>1, <2>2, Zenon DEF Synchronized
  <2>. QED BY <2>4, <2>5, Zenon DEF Synchronized
<1>2. IInv /\ Synchronized /\ [Next]_vars => Synchronized'
  BY <1>1, DeviceKeepsStep, ReadKeepsStep, ParseKeepsStep DEF Next, Timer, Parse
<1>. QED BY InvariantHolds, SynchronizedInit, <1>2, PTL DEF Spec

(* "The while loop ensures no package is omitted": for any sizes, and        *)
(* however the bytes come in, a package to which nothing happened comes out  *)
(* when the one before it did.                                               *)
THEOREM NoneIsOmitted == Spec => []NoneOmittedAfterDelivered
<1>1. ASSUME IInv, Synchronized PROVE NoneOmittedAfterDelivered
  <2>. SUFFICES ASSUME NEW i \in DOMAIN sent, Over(i), Sound(i),
                       i > 1 => i - 1 \in Range(delivered), i \notin Range(delivered)
                PROVE  FALSE
    BY DEF NoneOmittedAfterDelivered
  <2>1. sent \in Seq(SentPackage) /\ i \in 1..Len(sent) /\ Len(sent) \in Nat
    BY <1>1, LenProperties DEF IInv, Bytes
  <2>2. Due(i)
    <3>1. i # 1 => i > 1
      BY <2>1
    <3>. QED BY <3>1 DEF Due, Sound, SoundIn
  <2>3. Stream # <<>> /\ Stream[1].id = i
    <3>1. i \in 1..(Len(sent) + 1) /\ i # Len(sent) + 1
      BY <2>1
    <3>. QED BY <1>1, <2>2, <3>1 DEF Synchronized, Following, InStep, NextIs
  <2>4. Stream[1] \in Range(inQueue) \union Range(wire)
    <3>1. JoinOf(Stream, inQueue, wire) /\ inQueue \in Seq(AnyByte) /\ wire \in Seq(AnyByte)
      BY <1>1, StreamIs DEF IInv, Bytes
    <3>2. /\ Stream \in Seq(AnyByte) /\ Len(Stream) = Len(inQueue) + Len(wire)
          /\ Len(inQueue) \in Nat /\ Len(wire) \in Nat
          /\ DOMAIN inQueue = 1..Len(inQueue) /\ DOMAIN wire = 1..Len(wire)
      BY <3>1, LenProperties DEF JoinOf
    <3>3. Len(Stream) # 0
      BY <2>3, <3>2
    <3>4. CASE Len(inQueue) > 0
      <4>1. 1 \in 1..Len(inQueue)
        BY <3>2, <3>4
      <4>2. Stream[1] = inQueue[1]
        BY <3>1, <4>1, Zenon DEF JoinOf
      <4>. QED BY <3>2, <4>1, <4>2 DEF Range
    <3>5. CASE ~(Len(inQueue) > 0)
      <4>1. Len(inQueue) = 0 /\ 1 \in 1..Len(wire) /\ Len(inQueue) + 1 = 1
        BY <3>2, <3>3, <3>5
      <4>2. Stream[Len(inQueue) + 1] = wire[1]
        BY <3>1, <4>1, Zenon DEF JoinOf
      <4>. QED BY <3>2, <4>1, <4>2 DEF Range
    <3>. QED BY <3>4, <3>5
  <2>5. Stream[1].id < i
    BY <2>4 DEF Over
  <2>. QED BY <2>1, <2>3, <2>5
<1>. QED BY <1>1, SynchronizedHolds, PTL

-----------------------------------------------------------------------------
(* ResynchronizesWithinReach.                                                *)

(* Where the device began package k, or is to begin the next one.            *)
Offset(k) ==
    IF k <= Len(sent) THEN sent[k].before
                      ELSE sent[Len(sent)].before + sent[Len(sent)].size + 5

Laid == \A k \in 1..Len(sent) : Offset(k + 1) = Offset(k) + sent[k].size + 5

(* The packages are on their way in their order: behind any byte of one is   *)
(* the beginning of every later one that is sound.                           *)
InOrder(q, s, o) ==
    \A a \in 1..Len(q), i \in DOMAIN s :
        q[a].id # 0 /\ q[a].id < i /\ SoundIn(s, o, i)
        => \E b \in 1..Len(q) : b > a /\ q[b].id = i /\ q[b].place = 1

LEMMA InOrderRest ==
    ASSUME NEW q, NEW r, NEW d, RestOf(r, q, d),
           NEW s, NEW o, NEW o2, o \subseteq o2, InOrder(q, s, o)
    PROVE  InOrder(r, s, o2)
<1>. SUFFICES ASSUME NEW a \in 1..Len(r), NEW i \in DOMAIN s,
                     r[a].id # 0, r[a].id < i, SoundIn(s, o2, i)
              PROVE  \E b \in 1..Len(r) : b > a /\ r[b].id = i /\ r[b].place = 1
  BY DEF InOrder
<1>1. /\ Len(q) \in Nat /\ Len(r) = Len(q) - d /\ d \in Nat /\ Len(r) \in Nat
      /\ \A b \in 1..Len(r) : r[b] = q[b + d]
  BY LenProperties DEF RestOf
<1>2. a + d \in 1..Len(q) /\ r[a] = q[a + d]
  BY <1>1
<1>3. SoundIn(s, o, i)
  BY DEF SoundIn
<1>4. PICK b \in 1..Len(q) : b > a + d /\ q[b].id = i /\ q[b].place = 1
  BY <1>2, <1>3 DEF InOrder
<1>5. b - d \in 1..Len(r) /\ b - d > a /\ (b - d) + d = b
  <2>1. /\ Len(q) \in Nat /\ Len(r) = Len(q) - d /\ d \in Nat /\ Len(r) \in Nat
        /\ a \in 1..Len(r) /\ b \in 1..Len(q) /\ b > a + d
    BY <1>1, <1>4
  <2>. QED BY <2>1
<1>6. r[b - d] = q[(b - d) + d]
  BY <1>1, <1>5, Zenon
<1>. QED BY <1>4, <1>5, <1>6

LEMMA InOrderPiece ==
    ASSUME NEW q, q \in Seq(AnyByte), NEW s, s \in Seq(SentPackage), NEW o, InOrder(q, s, o),
           Carries(q, s, o), NEW r, r \in SentPackage,
           NEW t, Piece(t, Len(s) + 1, r.size, r.content),
           r.damaged = FALSE => WholeIs(t, Len(s) + 1, r.size)
    PROVE  InOrder(q \o t, Append(s, r), o)
<1>. DEFINE N == Len(s) + 1
            s2 == Append(s, r)
            u == q \o t
<1>1. /\ Len(s) \in Nat /\ DOMAIN s = 1..Len(s) /\ Len(q) \in Nat /\ r.damaged \in BOOLEAN
      /\ t \in Seq(AnyByte) /\ Len(t) \in Nat \ {0}
  BY LenProperties DEF Piece, SentPackage
<1>2. /\ DOMAIN s2 = 1..N /\ N \in Nat \ {0}
      /\ \A i \in 1..Len(s) : s2[i] = s[i]
      /\ s2[N] = r
  BY <1>1
<1>3. /\ Len(u) = Len(q) + Len(t)
      /\ \A a \in 1..Len(q) : u[a] = q[a]
      /\ \A a \in 1..Len(t) : u[Len(q) + a] = t[a]
  BY <1>1
<1>. HIDE DEF N, s2, u
<1>4. ASSUME NEW a \in 1..Len(u), NEW i \in DOMAIN s2,
             u[a].id # 0, u[a].id < i, SoundIn(s2, o, i)
      PROVE  \E b \in 1..Len(u) : b > a /\ u[b].id = i /\ u[b].place = 1
  <2>1. CASE ~(a \in 1..Len(q))
    <3>1. a - Len(q) \in 1..Len(t) /\ Len(q) + (a - Len(q)) = a
      <4>1. Len(u) = Len(q) + Len(t) /\ Len(q) \in Nat /\ Len(t) \in Nat
        BY <1>1, <1>3
      <4>. QED BY <2>1, <4>1
    <3>2. u[Len(q) + (a - Len(q))] = t[a - Len(q)]
      BY <1>3, <3>1, Zenon
    <3>3. t[a - Len(q)].id \in {0, N}
      BY <3>1 DEF Piece, N
    <3>4. u[a].id = N /\ i \in 1..N
      BY <1>2, <1>4, <3>1, <3>2, <3>3
    <3>. QED BY <1>2, <1>4, <3>4
  <2>2. CASE a \in 1..Len(q) /\ i = N
    <3>1. WholeIs(t, N, r.size)
      BY <1>1, <1>2, <1>4, <2>2 DEF SoundIn, N
    <3>2. 1 \in 1..Len(t) /\ Len(q) + 1 \in 1..Len(u) /\ Len(q) + 1 > a
      <4>1. Len(u) = Len(q) + Len(t) /\ Len(q) \in Nat /\ Len(t) \in Nat \ {0}
        BY <1>1, <1>3
      <4>. QED BY <2>2, <4>1
    <3>3. u[Len(q) + 1] = t[1]
      BY <1>3, <3>2, Zenon
    <3>4. t[1].id = N /\ t[1].place = 1
      BY <3>1, <3>2, Zenon DEF WholeIs
    <3>. QED BY <2>2, <3>2, <3>3, <3>4
  <2>3. CASE a \in 1..Len(q) /\ i # N
    <3>1. i \in DOMAIN s /\ s2[i] = s[i] /\ u[a] = q[a]
      BY <1>1, <1>2, <1>3, <2>3 DEF N
    <3>2. SoundIn(s, o, i)
      BY <1>4, <3>1 DEF SoundIn
    <3>3. PICK b \in 1..Len(q) : b > a /\ q[b].id = i /\ q[b].place = 1
      BY <1>4, <2>3, <3>1, <3>2 DEF InOrder
    <3>4. u[b] = q[b]
      BY <1>3, Zenon
    <3>5. b \in 1..Len(u)
      <4>1. Len(u) = Len(q) + Len(t) /\ Len(q) \in Nat /\ Len(t) \in Nat
        BY <1>1, <1>3
      <4>. QED BY <4>1
    <3>. QED BY <3>3, <3>4, <3>5
  <2>. QED BY <2>1, <2>2, <2>3
<1>5. InOrder(u, s2, o)
  BY <1>4 DEF InOrder
<1>. QED BY <1>5 DEF u, s2

(* What the parser does while package j and what follows are sound: it holds *)
(* what it began in step; it looks for a head, in a package that began less  *)
(* than Reach behind j; or it takes, up to there, what it has to of a        *)
(* package that never was.                                                   *)
Finding(j, k, q) ==
    \/ q = p + 1 /\ Holding(k)
    \/ p = 0 /\ q > 1 /\ Offset(k) < Offset(j) + Reach
    \/ p >= 3 /\ Offset(k) + (q - 1) + (declaredPayloadSize + 5 - p) <= Offset(j) + Reach

Unbroken(j, i) == \A k \in j..i : k <= Len(sent) => Clean(k)

Found(j, i) ==
    \/ \E k \in j..i, q \in Nat : NextIs(k, q) /\ Finding(j, k, q)
    \/ i <= Len(sent) /\ (i \in Range(delivered) \/ Offset(i) < Offset(j) + Reach)

Waiting(j) == \E a \in 1..Len(Stream) : Stream[a].id = j /\ Stream[a].place = 1
Past(j) == \A i \in j..(Len(sent) + 1) : Unbroken(j, i) => Found(j, i)

Resynchronizing ==
    /\ Laid /\ InOrder(Stream, sent, overwritten)
    /\ \A j \in 1..Len(sent) : Waiting(j) \/ Past(j)

LEMMA SentFacts ==
    ASSUME IInv
    PROVE  /\ sent \in Seq(SentPackage) /\ Len(sent) \in Nat /\ DOMAIN sent = 1..Len(sent)
           /\ \A k \in 1..Len(sent) : /\ sent[k].size \in 1..iDS /\ sent[k].size \in Nat \ {0}
                                      /\ sent[k].size <= 127 /\ sent[k].before \in Nat
                                      /\ Offset(k) \in Nat
           /\ sent # <<>> => Offset(Len(sent) + 1) \in Nat
           /\ Reach = MAX_PAYLOAD_SIZE_ + 2 /\ Reach \in Nat
<1>1. sent \in Seq(SentPackage) /\ Len(sent) \in Nat /\ DOMAIN sent = 1..Len(sent)
  BY LenProperties DEF IInv, Bytes
<1>2. ASSUME NEW k \in 1..Len(sent)
      PROVE  /\ sent[k].size \in 1..iDS /\ sent[k].size \in Nat \ {0}
             /\ sent[k].size <= 127 /\ sent[k].before \in Nat /\ Offset(k) \in Nat
  <2>1. sent[k] \in SentPackage
    BY <1>1
  <2>2. sent[k].size \in 1..iDS /\ sent[k].before \in Nat
    BY <2>1 DEF SentPackage
  <2>3. k <= Len(sent)
    BY <1>1
  <2>. QED BY <2>2, <2>3, ConstantsAssumption DEF Offset
<1>3. sent # <<>> => Offset(Len(sent) + 1) \in Nat
  <2>. SUFFICES ASSUME sent # <<>> PROVE Offset(Len(sent) + 1) \in Nat
    OBVIOUS
  <2>1. Len(sent) \in 1..Len(sent) /\ ~(Len(sent) + 1 <= Len(sent))
    BY <1>1
  <2>2. sent[Len(sent)].size \in Nat /\ sent[Len(sent)].before \in Nat
    BY <1>2, <2>1
  <2>. QED BY <2>1, <2>2 DEF Offset
<1>4. Reach = MAX_PAYLOAD_SIZE_ + 2 /\ Reach \in Nat
  BY ConstantsAssumption DEF Reach, CHECKSUM_LENGTH_
<1>. QED BY <1>1, <1>2, <1>3, <1>4

LEMMA CleanIsSound ==
    ASSUME NEW k, Clean(k)
    PROVE  SoundIn(sent, overwritten, k) /\ sent[k].content # HEAD_1_
BY DEF Clean, Sound, SoundIn

(* In a payload every byte is taken, stored or not, until the last.          *)
LEMMA PayloadTaken ==
    ASSUME IInv, Parse, p >= 3
    PROVE  /\ declaredPayloadSize' = declaredPayloadSize
           /\ IF p + 1 = declaredPayloadSize + 5 THEN p' = 0 ELSE p' = p + 1
<1>1. p \in Nat /\ declaredPayloadSize \in Int /\ p < declaredPayloadSize + 5
  BY DEF IInv, Parsing
<1>2. Complete <=> p + 1 = declaredPayloadSize + 5
  BY <1>1, SizesAre DEF Complete
<1>3. StoreByte \/ CompleteGood \/ CompleteBad \/ OmitByte
  BY <1>1, SizesAre DEF Parse, SeekHead, MatchHead, TakeSize
<1>. QED BY <1>2, <1>3 DEF StoreByte, CompleteGood, CompleteBad, OmitByte, Store, Restart

(* Nothing in a clean package but its first byte is taken for a head.        *)
LEMMA NoHeadTaken ==
    ASSUME IInv, Parse, p = 0, Byte.value # HEAD_1_
    PROVE  p' = 0
BY SizesAre DEF Parse, SeekHead, MatchHead, TakeSize, StoreByte, CompleteGood, CompleteBad,
                OmitByte, InPayload

LEMMA FindingAdvances ==
    ASSUME IInv, IInv', Synchronized, Laid, Parse,
           NEW j \in 1..Len(sent), NEW k \in j..(Len(sent) + 1), NEW q \in Nat,
           NextIs(k, q), Finding(j, k, q), k <= Len(sent) => Clean(k)
    PROVE  /\ k \in 1..Len(sent)
           /\ IF q # sent[k].size + 5
                 THEN NextIs(k, q + 1)' /\ Finding(j, k, q + 1)'
                 ELSE /\ k \in Range(delivered') \/ Offset(k) < Offset(j) + Reach
                      /\ (k + 1 <= Len(sent) => Clean(k + 1))
                         => NextIs(k + 1, 1)' /\ Finding(j, k + 1, 1)'
<1>. DEFINE n == sent[k].size
            o == Offset(k)
            goal == Offset(j) + Reach
<1>1. TakeByte /\ Carried /\ sent' = sent
  BY ParseTakes DEF Synchronized, Carried
<1>2. /\ Len(sent) \in Nat /\ k \in 1..(Len(sent) + 1)
      /\ k <= Len(sent) => SoundIn(sent, overwritten, k)
  BY SentFacts, CleanIsSound
<1>3. /\ k \in 1..Len(sent) /\ k \in DOMAIN sent
      /\ Byte.id = k /\ Byte.place = q /\ q \in 1..(n + 5)
      /\ q = 2 => Byte.value = HEAD_2_
      /\ q = 3 => Byte.value = n
      /\ q > 3 => Byte.value = sent[k].content
      /\ q # n + 5 => NextIs(k, q + 1)'
  BY <1>1, <1>2, HeadMoves
<1>4. /\ n \in Nat \ {0} /\ n <= 127 /\ o \in Nat /\ goal \in Nat /\ Offset(k + 1) = o + n + 5
      /\ sent[k].content # HEAD_1_
  <2>1. Offset(j) \in Nat /\ Reach \in Nat /\ n \in Nat \ {0} /\ n <= 127 /\ o \in Nat
    BY <1>3, SentFacts
  <2>2. Offset(k + 1) = o + n + 5
    BY <1>3 DEF Laid
  <2>3. Clean(k)
    BY <1>2, <1>3
  <2>4. sent[k].content # HEAD_1_
    BY <2>3, CleanIsSound
  <2>. HIDE DEF n, o
  <2>. QED BY <2>1, <2>2, <2>4
<1>5. (\A x : Offset(x)' = Offset(x)) /\ Offset(j)' = Offset(j) /\ Reach' = Reach
  BY <1>1 DEF Offset, Reach
<1>6. q = n + 5 /\ (k + 1 <= Len(sent) => Clean(k + 1)) => NextIs(k + 1, 1)'
  BY <1>1, <1>3, NextAfterLast, CleanIsSound
<1>7. p' = 0 => \A x : Holding(x)'
  <2>. SUFFICES ASSUME p' = 0, NEW x PROVE Holding(x)'
    OBVIOUS
  <2>1. Len(inBuf') = 0 /\ ~(p' >= 3) /\ 1..p' = {}
    BY DEF IInv, Parsing
  <2>. QED BY <2>1 DEF Holding
<1>8. p' = 0 => Finding(j, k + 1, 1)'
  BY <1>7 DEF Finding
<1>9. p \in Nat /\ p' \in Nat /\ declaredPayloadSize \in Int
  BY DEF IInv, Parsing
<1>. HIDE DEF n, o, goal
<1>10. CASE q = p + 1 /\ Holding(k)
  <2>1. InStep(k)
    BY <1>9, <1>10 DEF InStep
  <2>2. IF p + 1 # n + 5 THEN InStep(k)' ELSE CompleteGood
    BY <1>1, <1>2, <2>1, HoldingAdvances DEF n
  <2>3. CASE q # n + 5
    <3>1. InStep(k)' /\ NextIs(k, q + 1)'
      BY <1>3, <1>10, <2>2, <2>3
    <3>2. q + 1 = p' + 1 /\ Holding(k)'
      BY <1>1, <1>2, <1>3, <3>1 DEF InStep, NextIs
    <3>3. Finding(j, k, q + 1)'
      BY <3>2 DEF Finding
    <3>. QED BY <1>3, <2>3, <3>1, <3>3 DEF n
  <2>4. CASE q = n + 5
    <3>1. CompleteGood
      BY <1>10, <2>2, <2>4
    <3>2. k \in Range(delivered')
      BY <1>3, <3>1, DeliveredGrows
    <3>3. p' = 0
      BY <1>1, <3>1, DeliveredIsComplete
    <3>. QED BY <1>3, <1>6, <1>8, <2>4, <3>2, <3>3 DEF n
  <2>. QED BY <2>3, <2>4
<1>11. CASE p = 0 /\ q > 1 /\ o < goal
  <2>1. Byte.value # HEAD_1_
    <3>1. q = 2 \/ q = 3 \/ q > 3
      BY <1>11
    <3>. QED BY <1>3, <1>4, <3>1, SizesAre
  <2>2. p' = 0
    BY <1>11, <2>1, NoHeadTaken
  <2>3. CASE q # n + 5
    <3>1. Finding(j, k, q + 1)'
      <4>1. q + 1 > 1
        BY <1>11
      <4>2. Offset(k)' < Offset(j)' + Reach'
        BY <1>5, <1>11 DEF o, goal
      <4>. QED BY <2>2, <4>1, <4>2 DEF Finding
    <3>. QED BY <1>3, <2>3, <3>1 DEF n
  <2>4. CASE q = n + 5
    BY <1>3, <1>6, <1>8, <1>11, <2>2, <2>4 DEF n, o, goal
  <2>. QED BY <2>3, <2>4
<1>12. CASE p >= 3 /\ o + (q - 1) + (declaredPayloadSize + 5 - p) <= goal
  <2>1. /\ declaredPayloadSize' = declaredPayloadSize
        /\ IF p + 1 = declaredPayloadSize + 5 THEN p' = 0 ELSE p' = p + 1
        /\ p < declaredPayloadSize + 5
    BY <1>12, PayloadTaken DEF IInv, Parsing
  <2>2. o < goal /\ o + q <= goal
    <3>1. q >= 1
      BY <1>3, <1>4
    <3>2. declaredPayloadSize + 5 - p >= 1
      BY <1>9, <2>1
    <3>3. /\ o \in Nat /\ q \in Nat /\ goal \in Nat /\ declaredPayloadSize + 5 - p \in Int
          /\ o + (q - 1) + (declaredPayloadSize + 5 - p) <= goal
      BY <1>4, <1>9, <1>12
    <3>. QED BY <3>1, <3>2, <3>3
  <2>3. CASE p' = 0
    <3>1. CASE q # n + 5
      <4>1. q + 1 > 1
        BY <1>3, <1>4
      <4>2. Offset(k)' < Offset(j)' + Reach'
        BY <1>5, <2>2 DEF o, goal
      <4>3. Finding(j, k, q + 1)'
        BY <2>3, <4>1, <4>2 DEF Finding
      <4>. QED BY <1>3, <3>1, <4>3 DEF n
    <3>2. CASE q = n + 5
      BY <1>3, <1>6, <1>8, <2>2, <2>3, <3>2 DEF n, o, goal
    <3>. QED BY <3>1, <3>2
  <2>4. CASE p' # 0
    <3>1. p' = p + 1 /\ p' >= 3
      BY <1>9, <1>12, <2>1, <2>4
    <3>2. o + q + (declaredPayloadSize' + 5 - p') <= goal
      BY <1>3, <1>4, <1>9, <1>12, <2>1, <3>1
    <3>3. CASE q # n + 5
      <4>1. Offset(k)' + ((q + 1) - 1) + (declaredPayloadSize' + 5 - p') <= Offset(j)' + Reach'
        <5>1. Offset(k)' = o /\ Offset(j)' + Reach' = goal /\ (q + 1) - 1 = q
          BY <1>5 DEF o, goal
        <5>. QED BY <3>2, <5>1
      <4>2. Finding(j, k, q + 1)'
        BY <3>1, <4>1 DEF Finding
      <4>. QED BY <1>3, <3>3, <4>2 DEF n
    <3>4. CASE q = n + 5
      <4>1. Offset(k + 1)' + (1 - 1) + (declaredPayloadSize' + 5 - p') <= Offset(j)' + Reach'
        <5>1. Offset(k + 1)' = o + n + 5 /\ Offset(j)' + Reach' = goal
          BY <1>4, <1>5 DEF o, goal
        <5>2. o + n + 5 + (1 - 1) = o + q
          BY <1>4, <3>4
        <5>. QED BY <3>2, <5>1, <5>2
      <4>2. Finding(j, k + 1, 1)'
        BY <3>1, <4>1 DEF Finding
      <4>. QED BY <1>3, <1>6, <2>2, <3>4, <4>2 DEF n, o, goal
    <3>. QED BY <3>3, <3>4
  <2>. QED BY <2>3, <2>4
<1>. QED BY <1>10, <1>11, <1>12 DEF Finding, o, goal

(* Whatever the parser was doing when package j began.                       *)
LEMMA FindingBegins ==
    ASSUME IInv, IInv', Synchronized, Laid, Parse,
           NEW j \in 1..Len(sent), NextIs(j, 1), Clean(j)
    PROVE  NextIs(j, 2)' /\ Finding(j, j, 2)'
<1>1. TakeByte /\ Carried /\ sent' = sent
  BY ParseTakes DEF Synchronized, Carried
<1>2. /\ Len(sent) \in Nat /\ j \in j..(Len(sent) + 1) /\ j \in 1..(Len(sent) + 1)
      /\ sent[j].size \in Nat /\ sent[j].size + 5 # 1
      /\ Offset(j) \in Nat /\ Reach = MAX_PAYLOAD_SIZE_ + 2 /\ Reach \in Nat
      /\ MAX_PAYLOAD_SIZE_ \in Nat
  <2>1. Len(sent) \in Nat /\ sent[j].size \in Nat \ {0} /\ Offset(j) \in Nat
        /\ Reach = MAX_PAYLOAD_SIZE_ + 2 /\ Reach \in Nat
    BY SentFacts
  <2>. QED BY <2>1, ConstantsAssumption
<1>3. /\ Byte.value = HEAD_1_
      /\ 1 # sent[j].size + 5 => NextIs(j, 1 + 1)'
  BY <1>1, <1>2, HeadMoves, CleanIsSound
<1>4. NextIs(j, 2)'
  BY <1>2, <1>3
<1>5. /\ p \in Nat /\ declaredPayloadSize \in Int
      /\ p >= 3 => declaredPayloadSize <= MAX_PAYLOAD_SIZE_
      /\ p = 0 => Len(inBuf) = 0
  BY DEF IInv, Parsing
<1>6. CASE p = 0 \/ p >= 3
  <2>1. Finding(j, j, 1)
    <3>1. CASE p = 0
      <4>1. Holding(j)
        BY <1>5, <3>1 DEF Holding
      <4>. QED BY <3>1, <4>1 DEF Finding
    <3>2. CASE p >= 3
      <4>1. Offset(j) + (1 - 1) + (declaredPayloadSize + 5 - p) <= Offset(j) + Reach
        BY <1>2, <1>5, <3>2
      <4>. QED BY <3>2, <4>1 DEF Finding
    <3>. QED BY <1>6, <3>1, <3>2
  <2>2. Finding(j, j, 1 + 1)'
    BY <1>2, <2>1, FindingAdvances
  <2>. QED BY <1>4, <2>2
<1>7. CASE p = 1 \/ p = 2
  <2>1. MatchHead \/ TakeSize
    BY <1>7, SizesAre
       DEF Parse, SeekHead, StoreByte, CompleteGood, CompleteBad, OmitByte, InPayload
  <2>2. p' = 0
    <3>1. CASE MatchHead
      BY <1>3, <3>1, SizesAre DEF MatchHead, Restart
    <3>2. CASE TakeSize
      <4>1. BadSize(Int8(Byte.value))
        BY <1>3, SizesAre DEF BadSize, Int8
      <4>. QED BY <3>2, <4>1 DEF TakeSize, Restart
    <3>. QED BY <2>1, <3>1, <3>2
  <2>3. Offset(j)' < Offset(j)' + Reach'
    <3>1. Offset(j)' = Offset(j) /\ Reach' = Reach
      BY <1>1 DEF Offset, Reach
    <3>. QED BY <1>2, <3>1
  <2>4. Finding(j, j, 2)'
    BY <2>2, <2>3 DEF Finding
  <2>. QED BY <1>4, <2>4
<1>. QED BY <1>5, <1>6, <1>7

LEMMA ParseKeepsResync ==
    ASSUME IInv, IInv', Synchronized, Resynchronizing, Parse
    PROVE  Resynchronizing'
<1>1. /\ TakeByte /\ sent' = sent /\ overwritten' = overwritten /\ Len(sent) \in Nat
      /\ RestOf(Stream', Stream, 1) /\ Range(delivered) \subseteq Range(delivered')
  BY ParseTakes, StreamTaken, SentFacts, DeliveredGrows DEF IInv
<1>2. (\A x : Offset(x)' = Offset(x)) /\ Reach' = Reach
  BY <1>1 DEF Offset, Reach
<1>3. Laid'
  BY <1>1, <1>2 DEF Resynchronizing, Laid
<1>4. InOrder(Stream', sent', overwritten')
  BY <1>1, InOrderRest DEF Resynchronizing
<1>5. ASSUME NEW j \in 1..Len(sent), NEW i \in j..(Len(sent) + 1), Unbroken(j, i)'
      PROVE  /\ Unbroken(j, i)
             /\ \A k \in j..i : k <= Len(sent) => Clean(k)
  BY <1>1, <1>5 DEF Unbroken, Clean, Sound
<1>6. ASSUME NEW j \in 1..Len(sent), Waiting(j) PROVE Waiting(j)' \/ Past(j)'
  <2>1. PICK a \in 1..Len(Stream) : Stream[a].id = j /\ Stream[a].place = 1
    BY <1>6 DEF Waiting
  <2>2. CASE a # 1
    <3>1. Len(Stream) \in Nat /\ Len(Stream') = Len(Stream) - 1
      BY <1>1, LenProperties DEF RestOf
    <3>2. a - 1 \in 1..Len(Stream') /\ (a - 1) + 1 = a
      BY <2>2, <3>1
    <3>3. Stream'[a - 1] = Stream[(a - 1) + 1]
      BY <1>1, <3>2, Zenon DEF RestOf
    <3>. QED BY <2>1, <3>2, <3>3 DEF Waiting
  <2>3. CASE a = 1
    <3>1. NextIs(j, 1)
      <4>1. Stream # <<>>
        BY <2>1, <2>3
      <4>2. j # Len(sent) + 1
        BY <1>1
      <4>. QED BY <2>1, <2>3, <4>1, <4>2 DEF NextIs
    <3>2. ASSUME NEW i \in j..(Len(sent) + 1), Unbroken(j, i)'
          PROVE  Found(j, i)'
      <4>1. Clean(j)
        BY <1>1, <1>5, <3>2
      <4>2. NextIs(j, 2)' /\ Finding(j, j, 2)'
        BY <3>1, <4>1, FindingBegins DEF Resynchronizing
      <4>3. j \in j..i /\ 2 \in Nat
        BY <1>1
      <4>. QED BY <4>2, <4>3 DEF Found
    <3>. QED BY <1>1, <3>2 DEF Past
  <2>. QED BY <2>2, <2>3
<1>7. ASSUME NEW j \in 1..Len(sent), Past(j) PROVE Past(j)'
  <2>. SUFFICES ASSUME NEW i \in j..(Len(sent) + 1), Unbroken(j, i)'
                PROVE  Found(j, i)'
    BY <1>1 DEF Past
  <2>1. Found(j, i) /\ \A k \in j..i : k <= Len(sent) => Clean(k)
    BY <1>5, <1>7 DEF Past
  <2>2. CASE i <= Len(sent) /\ (i \in Range(delivered) \/ Offset(i) < Offset(j) + Reach)
    BY <1>1, <1>2, <2>2 DEF Found
  <2>3. CASE \E k \in j..i, q \in Nat : NextIs(k, q) /\ Finding(j, k, q)
    <3>1. PICK k \in j..i, q \in Nat : NextIs(k, q) /\ Finding(j, k, q)
      BY <2>3
    <3>2. k \in j..(Len(sent) + 1) /\ (k <= Len(sent) => Clean(k)) /\ k \in Nat
      BY <1>1, <2>1
    <3>3. /\ k \in 1..Len(sent)
          /\ IF q # sent[k].size + 5
                THEN NextIs(k, q + 1)' /\ Finding(j, k, q + 1)'
                ELSE /\ k \in Range(delivered') \/ Offset(k) < Offset(j) + Reach
                     /\ (k + 1 <= Len(sent) => Clean(k + 1))
                        => NextIs(k + 1, 1)' /\ Finding(j, k + 1, 1)'
      BY <3>1, <3>2, FindingAdvances DEF Resynchronizing
    <3>4. CASE q # sent[k].size + 5
      <4>1. q + 1 \in Nat
        OBVIOUS
      <4>. QED BY <3>3, <3>4, <4>1 DEF Found
    <3>5. CASE q = sent[k].size + 5 /\ k = i
      <4>1. i <= Len(sent)
        BY <1>1, <3>3, <3>5
      <4>. QED BY <1>1, <1>2, <3>3, <3>5, <4>1 DEF Found
    <3>6. CASE q = sent[k].size + 5 /\ k # i
      <4>1. k + 1 \in j..i /\ 1 \in Nat
        BY <1>1, <3>6
      <4>2. NextIs(k + 1, 1)' /\ Finding(j, k + 1, 1)'
        BY <2>1, <3>3, <3>6, <4>1
      <4>. QED BY <4>1, <4>2 DEF Found
    <3>. QED BY <3>4, <3>5, <3>6
  <2>. QED BY <2>1, <2>2, <2>3 DEF Found
<1>. QED BY <1>1, <1>3, <1>4, <1>6, <1>7 DEF Resynchronizing

(* Sending changes nothing of what is on its way, and begins where it was    *)
(* to begin.                                                                 *)
LEMMA DeviceKeepsResync ==
    ASSUME IInv, IInv', Synchronized, Resynchronizing, Device
    PROVE  Resynchronizing'
<1>0. PICK L \in Nat : L = Len(sent)
  BY SentFacts
<1>. DEFINE N == L + 1
<1>1. /\ sent \in Seq(SentPackage) /\ L \in Nat /\ DOMAIN sent = 1..L /\ Len(sent) = L
      /\ Reach' = Reach /\ Reach \in Nat /\ Stream \in Seq(AnyByte)
  <2>1. Stream \in Seq(AnyByte)
    BY StreamIs DEF IInv, JoinOf
  <2>. QED BY <1>0, <2>1, SentFacts DEF Reach
<1>2. UNCHANGED <<inQueue, p, inBuf, declaredPayloadSize, omitStream, delivered, overwritten>>
  BY DeviceLeaves
<1>3. PICK r \in SentPackage, t \in Seq(AnyByte) :
         /\ sent' = Append(sent, r)
         /\ r.before = IF sent = <<>> THEN 0 ELSE Last(sent).before + Last(sent).size + 5
         /\ Piece(t, N, r.size, r.content)
         /\ r.damaged = FALSE => WholeIs(t, N, r.size)
         /\ Stream' = Stream \o t
  BY <1>1, DeviceSends
<1>4. /\ Len(sent') = N /\ sent'[N] = r /\ \A k \in 1..L : sent'[k] = sent[k]
      /\ DOMAIN sent' = 1..N
  BY <1>1, <1>3
<1>5. JoinOf(Stream', Stream, t)
  BY <1>1, <1>3, Joined
<1>6. /\ Len(Stream) \in Nat /\ Len(t) \in Nat \ {0} /\ Len(Stream') = Len(Stream) + Len(t)
      /\ \A a \in 1..Len(Stream) : Stream'[a] = Stream[a]
      /\ \A a \in 1..Len(t) : Stream'[Len(Stream) + a] = t[a]
      /\ Stream' \in Seq(AnyByte)
  BY <1>3, <1>5 DEF JoinOf, Piece
<1>7. sent # <<>> => r.before = sent[L].before + sent[L].size + 5 /\ L \in 1..L
  BY <1>1, <1>3 DEF Last
<1>8. (\A k \in 1..L : Offset(k)' = Offset(k)) /\ (sent # <<>> => Offset(N)' = Offset(N))
  <2>1. ASSUME NEW k \in 1..L PROVE Offset(k)' = Offset(k)
    <3>1. k <= L /\ k <= N
      BY <1>1
    <3>. QED BY <1>1, <1>4, <3>1 DEF Offset
  <2>2. ASSUME sent # <<>> PROVE Offset(N)' = Offset(N)
    <3>1. N <= N /\ ~(N <= L)
      BY <1>1
    <3>. QED BY <1>1, <1>4, <1>7, <2>2, <3>1 DEF Offset
  <2>. QED BY <2>1, <2>2
<1>9. Laid'
  <2>. SUFFICES ASSUME NEW k \in 1..N PROVE Offset(k + 1)' = Offset(k)' + sent'[k].size + 5
    BY <1>4 DEF Laid
  <2>1. CASE k = N
    <3>1. N <= N /\ ~(N + 1 <= N)
      BY <1>1
    <3>. QED BY <1>4, <2>1, <3>1 DEF Offset
  <2>2. CASE k # N
    <3>1. k \in 1..L /\ sent # <<>> /\ (k + 1 \in 1..L \/ k + 1 = N)
      BY <1>1, <2>2
    <3>2. Offset(k + 1)' = Offset(k + 1) /\ Offset(k)' = Offset(k) /\ sent'[k] = sent[k]
      BY <1>4, <1>8, <3>1
    <3>. QED BY <1>1, <3>1, <3>2 DEF Resynchronizing, Laid
  <2>. QED BY <2>1, <2>2
<1>10. InOrder(Stream', sent', overwritten')
  <2>1. InOrder(Stream \o t, Append(sent, r), overwritten)
    BY <1>1, <1>3, InOrderPiece DEF Resynchronizing, Synchronized
  <2>. QED BY <1>2, <1>3, <2>1
<1>11. ASSUME NEW j \in 1..N, NEW i, Unbroken(j, i)', NEW k \in j..i, k \in 1..N
       PROVE  /\ k \in 1..L => Clean(k)
              /\ k = N => r.damaged = FALSE
  <2>1. Clean(k)'
    BY <1>4, <1>11 DEF Unbroken
  <2>2. r.damaged \in BOOLEAN
    BY DEF SentPackage
  <2>. QED BY <1>2, <1>4, <2>1, <2>2 DEF Clean, Sound
<1>12. ASSUME NEW j \in 1..L, NEW k \in 1..N, NEW q \in Nat, NextIs(k, q), Finding(j, k, q),
              k = N => r.damaged = FALSE
       PROVE  NextIs(k, q)' /\ Finding(j, k, q)'
  <2>1. k # N + 1 /\ Stream' # <<>>
    BY <1>1, <1>6
  <2>2. sent # <<>> /\ Offset(k)' = Offset(k) /\ Offset(j)' = Offset(j)
    <3>1. k \in 1..L \/ k = N
      BY <1>1
    <3>. QED BY <1>1, <1>8, <3>1
  <2>3. CASE k # N
    <3>1. k \in 1..L /\ sent'[k] = sent[k]
      BY <1>1, <1>4, <2>3
    <3>2. Stream # <<>> /\ Stream[1].id = k /\ Stream[1].place = q
      BY <1>1, <1>12, <2>3 DEF NextIs
    <3>3. Stream'[1] = Stream[1]
      BY <1>1, <1>6, <3>2
    <3>4. NextIs(k, q)'
      BY <1>4, <2>1, <3>2, <3>3 DEF NextIs
    <3>5. Holding(k) => Holding(k)'
      BY <1>2, <3>1 DEF Holding
    <3>6. Finding(j, k, q)'
      BY <1>1, <1>2, <1>12, <2>2, <3>5 DEF Finding
    <3>. QED BY <3>4, <3>6
  <2>4. CASE k = N
    <3>1. q = 1 /\ Stream = <<>>
      BY <1>1, <1>12, <2>4 DEF NextIs
    <3>2. Stream'[1].id = N /\ Stream'[1].place = 1
      <4>1. Len(Stream) = 0 /\ 1 \in 1..Len(t) /\ Len(Stream) + 1 = 1
        BY <1>6, <3>1
      <4>2. Stream'[1] = t[1]
        <5>1. Stream'[Len(Stream) + 1] = t[1]
          BY <1>6, <4>1, Zenon
        <5>. QED BY <4>1, <5>1
      <4>. QED BY <1>3, <1>12, <2>4, <4>1, <4>2 DEF WholeIs
    <3>3. NextIs(k, q)'
      BY <1>4, <2>1, <2>4, <3>1, <3>2 DEF NextIs
    <3>4. Finding(j, k, q)'
      <4>1. CASE q = p + 1 /\ Holding(k)
        <5>1. p = 0 /\ Len(inBuf) = 0
          BY <3>1, <4>1 DEF IInv, Parsing, Holding
        <5>2. Holding(k)'
          BY <1>2, <5>1 DEF Holding
        <5>3. q = p' + 1
          BY <1>2, <4>1
        <5>. QED BY <5>2, <5>3 DEF Finding
      <4>2. CASE p >= 3 /\ Offset(k) + (q - 1) + (declaredPayloadSize + 5 - p) <= Offset(j) + Reach
        BY <1>1, <1>2, <2>2, <4>2 DEF Finding
      <4>3. ~(q > 1)
        BY <3>1
      <4>. QED BY <1>12, <4>1, <4>2, <4>3 DEF Finding
    <3>. QED BY <3>3, <3>4
  <2>. QED BY <2>3, <2>4
<1>13. ASSUME NEW j \in 1..L, Waiting(j) PROVE Waiting(j)'
  <2>1. PICK a \in 1..Len(Stream) : Stream[a].id = j /\ Stream[a].place = 1
    BY <1>13 DEF Waiting
  <2>2. a \in 1..Len(Stream') /\ Stream'[a] = Stream[a]
    BY <1>6
  <2>. QED BY <2>1, <2>2 DEF Waiting
<1>14. ASSUME NEW j \in 1..L, Past(j) PROVE Past(j)'
  <2>1. ASSUME NEW i \in j..N, Unbroken(j, i)'
        PROVE  \/ \E k \in j..i, q \in Nat : NextIs(k, q)' /\ Finding(j, k, q)'
               \/ i <= L /\ (i \in Range(delivered) \/ Offset(i) < Offset(j) + Reach)
    <3>1. Unbroken(j, i)
      <4>. SUFFICES ASSUME NEW k \in j..i, k <= L PROVE Clean(k)
        BY <1>1 DEF Unbroken
      <4>1. k \in 1..L /\ k \in 1..N /\ j \in 1..N
        BY <1>1
      <4>. QED BY <1>11, <2>1, <4>1
    <3>2. Found(j, i)
      BY <1>1, <1>14, <3>1 DEF Past
    <3>3. ASSUME NEW k \in j..i, NEW q \in Nat, NextIs(k, q), Finding(j, k, q)
          PROVE  NextIs(k, q)' /\ Finding(j, k, q)'
      <4>1. k \in 1..N /\ j \in 1..N
        BY <1>1
      <4>2. k = N => r.damaged = FALSE
        BY <1>11, <2>1, <4>1
      <4>. QED BY <1>12, <3>3, <4>1, <4>2
    <3>. QED BY <1>1, <3>2, <3>3 DEF Found
  <2>. SUFFICES ASSUME NEW i \in j..(N + 1), Unbroken(j, i)'
                PROVE  Found(j, i)'
    BY <1>4 DEF Past
  <2>2. CASE i # N + 1
    <3>1. i \in j..N /\ (i <= L => i \in 1..L /\ i <= N)
      BY <1>1, <2>2
    <3>2. CASE \E k \in j..i, q \in Nat : NextIs(k, q)' /\ Finding(j, k, q)'
      BY <3>2 DEF Found
    <3>3. CASE i <= L /\ (i \in Range(delivered) \/ Offset(i) < Offset(j) + Reach)
      <4>1. Offset(i)' = Offset(i) /\ Offset(j)' = Offset(j)
        BY <1>8, <3>1, <3>3
      <4>. QED BY <1>1, <1>2, <1>4, <3>1, <3>3, <4>1 DEF Found
    <3>. QED BY <2>1, <3>1, <3>2, <3>3
  <2>3. CASE i = N + 1
    <3>1. N \in j..N /\ ~(N <= L) /\ \A k \in j..N : k \in j..i
      BY <1>1, <2>3
    <3>2. Unbroken(j, N)'
      BY <3>1 DEF Unbroken
    <3>3. \E k \in j..N, q \in Nat : NextIs(k, q)' /\ Finding(j, k, q)'
      BY <2>1, <3>1, <3>2
    <3>. QED BY <3>1, <3>3 DEF Found
  <2>. QED BY <2>2, <2>3
<1>15. Waiting(N)' \/ Past(N)'
  <2>1. CASE r.damaged = FALSE
    <3>1. 1 \in 1..Len(t) /\ Len(Stream) + 1 \in 1..Len(Stream')
      BY <1>6
    <3>2. Stream'[Len(Stream) + 1] = t[1]
      BY <1>6, <3>1, Zenon
    <3>3. t[1].id = N /\ t[1].place = 1
      BY <1>3, <2>1, <3>1 DEF WholeIs
    <3>. QED BY <3>1, <3>2, <3>3 DEF Waiting
  <2>2. CASE r.damaged # FALSE
    <3>1. ASSUME NEW i \in N..(N + 1), Unbroken(N, i)' PROVE FALSE
      <4>1. N \in N..i /\ N \in 1..N
        BY <1>1
      <4>. QED BY <1>11, <2>2, <3>1, <4>1
    <3>. QED BY <1>4, <3>1 DEF Past
  <2>. QED BY <2>1, <2>2
<1>16. ASSUME NEW j \in 1..N PROVE Waiting(j)' \/ Past(j)'
  <2>1. j \in 1..L \/ j = N
    BY <1>1
  <2>. QED BY <1>1, <1>13, <1>14, <1>15, <2>1 DEF Resynchronizing
<1>. QED BY <1>4, <1>9, <1>10, <1>16 DEF Resynchronizing

(* What the queue loses is never a byte of a package that is still sound.    *)
LEMMA ReadKeepsResync ==
    ASSUME IInv, Synchronized, Resynchronizing, NEW n \in 1..ReadSize, ReadBytes(n)
    PROVE  Resynchronizing'
<1>1. UNCHANGED <<sent, p, inBuf, declaredPayloadSize, omitStream, delivered>>
  BY DEF ReadBytes, parser
<1>2. /\ Len(Stream) \in Nat \ {0} /\ overwritten \subseteq overwritten'
      /\ \E d : RestOf(Stream', Stream, d) /\ \A a \in 1..d : Stream[a].id \in overwritten'
  BY StreamRead DEF IInv
<1>3. PICK d : RestOf(Stream', Stream, d) /\ \A a \in 1..d : Stream[a].id \in overwritten'
  BY <1>2
<1>4. /\ d \in Nat /\ Len(Stream') = Len(Stream) - d /\ Stream' \in Seq(AnyByte)
      /\ \A a \in 1..Len(Stream') : Stream'[a] = Stream[a + d]
  <2>1. RestOf(Stream', Stream, d)
    BY <1>3
  <2>2. d \in 0..Len(Stream)
    BY <2>1 DEF RestOf
  <2>3. d \in Nat
    BY <1>2, <2>2
  <2>. QED BY <2>1, <2>3, Zenon DEF RestOf
<1>5. Len(sent) \in Nat
  BY SentFacts
<1>6. (\A x : Offset(x)' = Offset(x)) /\ Reach' = Reach /\ (\A x : Holding(x)' <=> Holding(x))
  BY <1>1 DEF Offset, Reach, Holding
<1>7. Laid'
  BY <1>1, <1>6 DEF Resynchronizing, Laid
<1>8. InOrder(Stream', sent', overwritten')
  BY <1>1, <1>2, <1>3, InOrderRest DEF Resynchronizing
<1>9. \A k : Clean(k)' => Clean(k) /\ k \notin overwritten'
  BY <1>1, <1>2 DEF Clean, Sound
<1>10. ASSUME NEW j \in 1..Len(sent), Waiting(j) PROVE Waiting(j)' \/ Past(j)'
  <2>1. PICK a \in 1..Len(Stream) : Stream[a].id = j /\ Stream[a].place = 1
    BY <1>10 DEF Waiting
  <2>2. CASE a \in 1..d
    <3>1. ASSUME NEW i \in j..(Len(sent) + 1), Unbroken(j, i)' PROVE FALSE
      <4>1. j \in j..i /\ j <= Len(sent)
        BY <1>5
      <4>2. Clean(j)'
        BY <1>1, <3>1, <4>1 DEF Unbroken
      <4>. QED BY <1>3, <1>9, <2>1, <2>2, <4>2
    <3>. QED BY <1>1, <3>1 DEF Past
  <2>3. CASE ~(a \in 1..d)
    <3>1. a - d \in 1..Len(Stream') /\ (a - d) + d = a
      <4>1. /\ d \in Nat /\ Len(Stream') = Len(Stream) - d /\ Len(Stream) \in Nat
            /\ a \in 1..Len(Stream)
        BY <1>2, <1>4
      <4>. QED BY <2>3, <4>1
    <3>2. Stream'[a - d] = Stream[(a - d) + d]
      BY <1>4, <3>1, Zenon
    <3>. QED BY <2>1, <3>1, <3>2 DEF Waiting
  <2>. QED BY <2>2, <2>3
<1>11. ASSUME NEW j \in 1..Len(sent), Past(j) PROVE Past(j)'
  <2>. SUFFICES ASSUME NEW i \in j..(Len(sent) + 1), Unbroken(j, i)'
                PROVE  Found(j, i)'
    BY <1>1 DEF Past
  <2>1. Found(j, i)
    <3>1. Unbroken(j, i)
      BY <1>1, <1>9 DEF Unbroken
    <3>. QED BY <1>11, <3>1 DEF Past
  <2>2. CASE i <= Len(sent) /\ (i \in Range(delivered) \/ Offset(i) < Offset(j) + Reach)
    BY <1>1, <1>6, <2>2 DEF Found
  <2>3. ASSUME NEW k \in j..i, NEW q \in Nat, NextIs(k, q), Finding(j, k, q)
        PROVE  Found(j, i)'
    <3>1. Stream # <<>> /\ k # Len(sent) + 1 /\ Stream[1].id = k /\ Stream[1].place = q
      <4>1. Stream # <<>>
        BY <1>2
      <4>. QED BY <2>3, <4>1 DEF NextIs
    <3>2. Clean(k)'
      <4>1. k <= Len(sent)
        BY <1>5, <3>1
      <4>. QED BY <1>1, <4>1 DEF Unbroken
    <3>3. d = 0
      <4>1. ~(1 \in 1..d)
        BY <1>3, <1>9, <3>1, <3>2
      <4>. QED BY <1>4, <4>1
    <3>4. Stream'[1] = Stream[1] /\ Stream' # <<>>
      <4>1. 1 \in 1..Len(Stream') /\ 1 + d = 1
        BY <1>2, <1>4, <3>3
      <4>2. Stream'[1] = Stream[1 + d]
        BY <1>4, <4>1, Zenon
      <4>. QED BY <4>1, <4>2
    <3>5. NextIs(k, q)'
      BY <1>1, <3>1, <3>4 DEF NextIs
    <3>6. Finding(j, k, q)'
      BY <1>1, <1>6, <2>3 DEF Finding
    <3>. QED BY <3>5, <3>6 DEF Found
  <2>. QED BY <2>1, <2>2, <2>3 DEF Found
<1>. QED BY <1>1, <1>7, <1>8, <1>10, <1>11 DEF Resynchronizing

LEMMA ResynchronizingHolds == Spec => [](IInv /\ Synchronized /\ Resynchronizing)
<1>1. Init => Resynchronizing
  <2>. SUFFICES ASSUME Init PROVE Resynchronizing
    OBVIOUS
  <2>1. Len(sent) = 0 /\ DOMAIN sent = {} /\ 1..Len(sent) = {}
    BY DEF Init
  <2>. QED BY <2>1 DEF Resynchronizing, Laid, InOrder
<1>2. ASSUME Resynchronizing, NothingLeft \/ Publish \/ UNCHANGED vars
      PROVE  Resynchronizing'
  <2>1. UNCHANGED <<wire, sent, inQueue, p, inBuf, declaredPayloadSize, omitStream,
                    delivered, overwritten>>
    BY <1>2 DEF NothingLeft, Publish, vars, parser
  <2>2. Stream' = Stream
    BY <2>1 DEF Stream
  <2>3. /\ \A k : Offset(k)' = Offset(k) /\ (Clean(k)' <=> Clean(k)) /\ (Holding(k)' <=> Holding(k))
        /\ Reach' = Reach
    BY <2>1 DEF Offset, Clean, Sound, Holding, Reach
  <2>4. \A j, k, q : (NextIs(k, q)' <=> NextIs(k, q)) /\ (Finding(j, k, q)' <=> Finding(j, k, q))
    BY <2>1, <2>2, <2>3 DEF NextIs, Finding
  <2>5. \A j, i : (Unbroken(j, i)' <=> Unbroken(j, i)) /\ (Found(j, i)' <=> Found(j, i))
    BY <2>1, <2>3, <2>4 DEF Unbroken, Found
  <2>6. \A j : (Waiting(j)' <=> Waiting(j)) /\ (Past(j)' <=> Past(j))
    BY <2>1, <2>2, <2>5 DEF Waiting, Past
  <2>7. Laid' /\ InOrder(Stream', sent', overwritten')
    BY <1>2, <2>1, <2>2, <2>3 DEF Resynchronizing, Laid
  <2>. QED BY <1>2, <2>1, <2>6, <2>7 DEF Resynchronizing
<1>3. IInv /\ IInv' /\ Synchronized /\ Resynchronizing /\ [Next]_vars => Resynchronizing'
  BY <1>2, DeviceKeepsResync, ReadKeepsResync, ParseKeepsResync DEF Next, Timer, Parse
<1>. QED BY SynchronizedHolds, <1>1, <1>3, PTL DEF Spec

(* A package that is over has left the queue and the port.                   *)
LEMMA OverHasLeft ==
    ASSUME IInv, NEW i, Over(i), NEW a \in 1..Len(Stream)
    PROVE  Stream[a].id < i
<1>1. JoinOf(Stream, inQueue, wire) /\ inQueue \in Seq(AnyByte) /\ wire \in Seq(AnyByte)
  BY StreamIs DEF IInv, Bytes
<1>2. /\ Len(Stream) = Len(inQueue) + Len(wire)
      /\ Len(inQueue) \in Nat /\ Len(wire) \in Nat
      /\ DOMAIN inQueue = 1..Len(inQueue) /\ DOMAIN wire = 1..Len(wire)
  BY <1>1, LenProperties DEF JoinOf
<1>3. Stream[a] \in Range(inQueue) \union Range(wire)
  <2>1. CASE a \in 1..Len(inQueue)
    <3>1. Stream[a] = inQueue[a]
      BY <1>1, <2>1, Zenon DEF JoinOf
    <3>. QED BY <1>2, <2>1, <3>1 DEF Range
  <2>2. CASE ~(a \in 1..Len(inQueue))
    <3>1. a - Len(inQueue) \in 1..Len(wire) /\ Len(inQueue) + (a - Len(inQueue)) = a
      BY <1>2, <2>2
    <3>2. Stream[Len(inQueue) + (a - Len(inQueue))] = wire[a - Len(inQueue)]
      BY <1>1, <3>1, Zenon DEF JoinOf
    <3>. QED BY <1>2, <3>1, <3>2 DEF Range
  <2>. QED BY <2>1, <2>2
<1>. QED BY <1>3 DEF Over

(* For any sizes, and whatever the line and the queue did before: once Reach *)
(* bytes of sound packages without another head have come, the next package  *)
(* comes out.                                                                *)
THEOREM FindsItsWayBack == Spec => []ResynchronizesWithinReach
<1>1. ASSUME IInv, Resynchronizing PROVE ResynchronizesWithinReach
  <2>. SUFFICES ASSUME NEW i \in DOMAIN sent, Over(i), NEW j \in 1..(i - 1),
                       LengthOf(j, i) >= Reach, \A k \in j..i : Clean(k)
                PROVE  i \in Range(delivered)
    BY DEF ResynchronizesWithinReach
  <2>1. /\ Len(sent) \in Nat /\ i \in 1..Len(sent) /\ j \in 1..Len(sent) /\ i <= Len(sent)
        /\ i \in j..(Len(sent) + 1) /\ i \in j..i
    <3>1. Len(sent) \in Nat /\ DOMAIN sent = 1..Len(sent)
      BY <1>1, SentFacts
    <3>. QED BY <3>1
  <2>2. ASSUME NEW a \in 1..Len(Stream), NEW k \in j..i, Stream[a].id = k
        PROVE  FALSE
    <3>1. k < i
      BY <1>1, <2>2, OverHasLeft
    <3>2. k # 0 /\ i \in DOMAIN sent
      BY <2>1
    <3>3. SoundIn(sent, overwritten, i)
      BY <2>1, CleanIsSound
    <3>4. PICK b \in 1..Len(Stream) : b > a /\ Stream[b].id = i /\ Stream[b].place = 1
      BY <1>1, <2>2, <3>1, <3>2, <3>3 DEF Resynchronizing, InOrder
    <3>5. Stream[b].id < i
      BY <1>1, OverHasLeft
    <3>. QED BY <2>1, <3>4, <3>5
  <2>3. ~Waiting(j)
    <3>1. j \in j..i
      BY <2>1
    <3>. QED BY <2>2, <3>1 DEF Waiting
  <2>4. Found(j, i)
    <3>1. Past(j)
      BY <1>1, <2>1, <2>3 DEF Resynchronizing
    <3>2. Unbroken(j, i)
      BY DEF Unbroken
    <3>. QED BY <2>1, <3>1, <3>2 DEF Past
  <2>5. ASSUME NEW k \in j..i, NEW q \in Nat, NextIs(k, q) PROVE FALSE
    <3>1. k # Len(sent) + 1
      BY <2>1
    <3>2. Stream # <<>> /\ Stream[1].id = k
      BY <2>5, <3>1 DEF NextIs
    <3>3. 1 \in 1..Len(Stream)
      <4>1. Stream \in Seq(AnyByte)
        BY <1>1, StreamIs DEF IInv, JoinOf
      <4>. QED BY <3>2, <4>1
    <3>. QED BY <2>2, <3>2, <3>3
  <2>6. ~(Offset(i) < Offset(j) + Reach)
    <3>1. /\ sent[i].before \in Nat /\ sent[j].before \in Nat /\ Reach \in Nat
          /\ Offset(i) = sent[i].before /\ Offset(j) = sent[j].before
      <4>1. sent[i].before \in Nat /\ sent[j].before \in Nat /\ Reach \in Nat
        BY <1>1, <2>1, SentFacts
      <4>. QED BY <2>1, <4>1 DEF Offset
    <3>2. sent[i].before - sent[j].before >= Reach
      BY DEF LengthOf
    <3>. QED BY <3>1, <3>2
  <2>. QED BY <2>4, <2>5, <2>6 DEF Found
<1>. QED BY <1>1, ResynchronizingHolds, PTL
=============================================================================
