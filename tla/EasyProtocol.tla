---------------------------- MODULE EasyProtocol ----------------------------
(***************************************************************************)
(* The node of the TransducerM IMU (tm_imu_node.cpp) with EasyProtocol and *)
(* EasyQueue (external/EasyProfile): a timer reads what bytes the serial   *)
(* port has, puts them into a queue that overwrites its oldest, and        *)
(* assembles packages from the queue until one call returns none.          *)
(*                                                                         *)
(* A package is two head bytes, a size, so many bytes of payload and two   *)
(* of checksum.  A byte is its value, with the package it belongs to and   *)
(* its place there, by which the model tells what the checksum tells the   *)
(* code: taken to detect every damage.  What the device sends is known to  *)
(* the object dictionary.  The line damages some packages.                 *)
(***************************************************************************)
EXTENDS Integers, Sequences, SequencesExt, FiniteSets, Functions

CONSTANTS iDS,                  \* the largest payload there is room for, 68
          MAX_PAYLOAD_SIZE_,    \* 120
          QueueSize,            \* EP_QUEUE_SIZE_, iDS * 10
          ReadSize,             \* sizeof(serialBuffer), 1024
          MaxPackages,          \* bound: packages sent
          MaxDamaged            \* bound: packages damaged on the line

ASSUME ConstantsAssumption ==
    /\ iDS \in Nat /\ MAX_PAYLOAD_SIZE_ \in Nat /\ iDS <= MAX_PAYLOAD_SIZE_
    /\ MAX_PAYLOAD_SIZE_ < 128
    /\ QueueSize \in Nat /\ ReadSize \in Nat /\ MaxPackages \in Nat /\ MaxDamaged \in Nat

HEAD_1_ == 170
HEAD_2_ == 85
HEAD_LENGTH_ == 2
SIZE_LENGTH_ == 1
CHECKSUM_LENGTH_ == 2
EP_PKG_MODIFIER_SIZE_ == HEAD_LENGTH_ + SIZE_LENGTH_ + CHECKSUM_LENGTH_

VARIABLES
    node,       \* between two timer callbacks, or in one
    wire,       \* bytes the serial port holds
    sent,       \* history: the packages sent
    inQueue,    \* EasyQueue
    p,          \* p - inBuf
    inBuf,      \* the bytes of the package being assembled
    declaredPayloadSize,
    omitStream,
    delivered,  \* history: the packages On_RecvPkg() returned
    overwritten \* history: packages the queue lost a byte of

parser == <<p, inBuf, declaredPayloadSize, omitStream>>
vars == <<node, wire, sent, inQueue, parser, delivered, overwritten>>

Init ==
    /\ node = "idle"
    /\ wire = <<>> /\ sent = <<>>
    /\ inQueue = <<>>
    /\ p = 0 /\ inBuf = <<>> /\ declaredPayloadSize = 0 /\ omitStream = FALSE
    /\ delivered = <<>> /\ overwritten = {}

-----------------------------------------------------------------------------
(* The device and the line                                                   *)

(* A package of a payload of n bytes; payload and checksum are of one value  *)
Package(id, n, v) ==
    LET value(k) == CASE k = 1 -> HEAD_1_ [] k = 2 -> HEAD_2_ [] k = 3 -> n [] OTHER -> v
    IN [k \in 1..(n + EP_PKG_MODIFIER_SIZE_) |-> [value |-> value(k), id |-> id, place |-> k]]

Noise == {0, HEAD_1_, HEAD_2_, 1, MAX_PAYLOAD_SIZE_}

(* Bytes lost at an end of the package or one in it, or one altered          *)
Damages(bytes) ==
    LET n == Len(bytes)
    IN {SubSeq(bytes, i, n) : i \in 2..n} \union {SubSeq(bytes, 1, i) : i \in 1..(n - 1)}
       \union {RemoveAt(bytes, i) : i \in 1..n}
       \union {[bytes EXCEPT ![i] = [value |-> v, id |-> 0, place |-> 0]] :
                  i \in 1..n, v \in Noise}

(* before: how many bytes the packages have that were sent before it         *)
Record(n, v, damaged) ==
    [size |-> n, damaged |-> damaged, content |-> v,
     before |-> IF sent = <<>> THEN 0
                ELSE Last(sent).before + Last(sent).size + EP_PKG_MODIFIER_SIZE_]

Send(n, v) ==
    /\ Len(sent) < MaxPackages
    /\ wire' = wire \o Package(Len(sent) + 1, n, v)
    /\ sent' = Append(sent, Record(n, v, FALSE))
    /\ UNCHANGED <<node, inQueue, parser, delivered, overwritten>>

SendDamaged(n, v) ==
    /\ Len(sent) < MaxPackages
    /\ Cardinality({i \in DOMAIN sent : sent[i].damaged}) < MaxDamaged
    /\ \E bytes \in Damages(Package(Len(sent) + 1, n, v)) : wire' = wire \o bytes
    /\ sent' = Append(sent, Record(n, v, TRUE))
    /\ UNCHANGED <<node, inQueue, parser, delivered, overwritten>>

-----------------------------------------------------------------------------
(* TimerCallback(), OnSerialRX() and EasyQueue::push()                       *)

(* What is left of a queue when it holds more than it can                    *)
Kept(q) == SubSeq(q, Len(q) - QueueSize + 1, Len(q))

ReadBytes(n) ==
    /\ node = "idle"
    /\ n <= ReadSize /\ n <= Len(wire)
    /\ wire' = SubSeq(wire, n + 1, Len(wire))
    /\ LET all == inQueue \o SubSeq(wire, 1, n)
           lost == SubSeq(all, 1, Len(all) - QueueSize)
       IN IF Len(all) > QueueSize
             THEN /\ inQueue' = Kept(all)
                  /\ overwritten' = overwritten \union {b.id : b \in Range(lost)}
             ELSE inQueue' = all /\ UNCHANGED overwritten
    /\ node' = "assembling"
    /\ UNCHANGED <<sent, parser, delivered>>

-----------------------------------------------------------------------------
(* AssembleInputPackage(), called again while it returns a package: one      *)
(* action for each byte taken from the queue.                                *)

TakeByte ==
    /\ node = "assembling" /\ inQueue # <<>>
    /\ inQueue' = Tail(inQueue)
    /\ UNCHANGED <<wire, sent, overwritten>>

Byte == Head(inQueue)

(* p = inBuf *)
Restart == p' = 0 /\ inBuf' = <<>>
Store == p' = p + 1 /\ inBuf' = Append(inBuf, Byte)

SeekHead ==
    /\ TakeByte /\ p = 0
    /\ IF Byte.value = HEAD_1_
          THEN Store /\ omitStream' = FALSE
          ELSE UNCHANGED <<p, inBuf, omitStream>>
    /\ UNCHANGED <<node, declaredPayloadSize, delivered>>

(* A head byte in place of the second one is not taken for a first one       *)
MatchHead ==
    /\ TakeByte /\ p = 1
    /\ IF Byte.value = HEAD_2_ THEN Store ELSE Restart
    /\ UNCHANGED <<node, declaredPayloadSize, omitStream, delivered>>

Int8(v) == IF v > 127 THEN v - 256 ELSE v

(* mutation: what there is no room for is stored *)
TooLarge_Never(n) == FALSE
TooLarge(n) == n > iDS

(* mutation: only a size that is not positive is refused *)
BadSize_TooSmall(n) == n <= 0
BadSize(n) == n > MAX_PAYLOAD_SIZE_ \/ n <= 0

TakeSize ==
    /\ TakeByte /\ p = HEAD_LENGTH_
    /\ declaredPayloadSize' = Int8(Byte.value)
    /\ IF BadSize(declaredPayloadSize')
          THEN Restart /\ UNCHANGED omitStream
          ELSE Store /\ omitStream' = TooLarge(declaredPayloadSize')
    /\ UNCHANGED <<node, delivered>>

(* mutation: the package ends before its checksum does *)
Complete_Early == p + 1 >= declaredPayloadSize + EP_PKG_MODIFIER_SIZE_ - 1
Complete == p + 1 >= declaredPayloadSize + EP_PKG_MODIFIER_SIZE_

InPayload == p >= HEAD_LENGTH_ + SIZE_LENGTH_

StoreByte ==
    /\ TakeByte /\ InPayload /\ ~omitStream /\ ~Complete
    /\ Store
    /\ UNCHANGED <<node, declaredPayloadSize, omitStream, delivered>>

(* UnWrapInData(): the bytes are those of one package                        *)
Intact(bytes) ==
    LET id == bytes[1].id
    IN /\ \A k \in DOMAIN bytes : bytes[k].place = k /\ bytes[k].id = id
       /\ Len(bytes) = sent[id].size + EP_PKG_MODIFIER_SIZE_

CompleteGood ==
    /\ TakeByte /\ InPayload /\ ~omitStream /\ Complete
    /\ Intact(Append(inBuf, Byte))
    /\ Restart
    /\ delivered' = Append(delivered, Byte.id)
    /\ UNCHANGED <<node, declaredPayloadSize, omitStream>>

(* Neither a bad package nor one omitted keeps the loop going: what is left  *)
(* in the queue waits for the next bytes                                     *)
CompleteBad ==
    /\ TakeByte /\ InPayload /\ ~omitStream /\ Complete
    /\ ~Intact(Append(inBuf, Byte))
    /\ Restart
    /\ node' = "publishing"
    /\ UNCHANGED <<declaredPayloadSize, omitStream, delivered>>

OmitByte ==
    /\ TakeByte /\ InPayload /\ omitStream
    /\ IF Complete
          THEN Restart /\ node' = "publishing"
          ELSE p' = p + 1 /\ UNCHANGED <<inBuf, node>>
    /\ UNCHANGED <<declaredPayloadSize, omitStream, delivered>>

NothingLeft ==
    /\ node = "assembling" /\ inQueue = <<>>
    /\ node' = "publishing"
    /\ UNCHANGED <<wire, sent, inQueue, parser, delivered, overwritten>>

(* Whatever came, the messages are stamped and published                     *)
Publish ==
    /\ node = "publishing"
    /\ node' = "idle"
    /\ UNCHANGED <<wire, sent, inQueue, parser, delivered, overwritten>>

Device == \E n \in 1..iDS, v \in {1, HEAD_1_} : Send(n, v) \/ SendDamaged(n, v)
Timer == \/ \E n \in 1..ReadSize : ReadBytes(n)
         \/ SeekHead \/ MatchHead \/ TakeSize \/ StoreByte \/ CompleteGood \/ CompleteBad
         \/ OmitByte \/ NothingLeft \/ Publish

Next == Device \/ Timer

Spec == Init /\ [][Next]_vars

-----------------------------------------------------------------------------
AnyByte == [value : 0..255, id : Nat, place : Nat]

TypeOK ==
    /\ node \in {"idle", "assembling", "publishing"}
    /\ {wire, inQueue, inBuf} \subseteq Seq(AnyByte)
    /\ sent \in Seq([size : 1..iDS, damaged : BOOLEAN, content : 0..255,
                      before : Nat])
    /\ p \in Nat /\ declaredPayloadSize \in -128..127 /\ omitStream \in BOOLEAN
    /\ delivered \in Seq(Nat)
    /\ overwritten \subseteq Nat

(* Whatever bytes come, inBuf is written within the iDS + 5 bytes that       *)
(* Init() allocates, and p stays below the end of the package.               *)
InBufHolds ==
    /\ Len(inBuf) <= iDS + EP_PKG_MODIFIER_SIZE_
    /\ InPayload => p < declaredPayloadSize + EP_PKG_MODIFIER_SIZE_
    /\ ~omitStream => Len(inBuf) = p

(* All bytes of the package have been taken from the queue.                  *)
Over(i) == \A q \in {wire, inQueue, inBuf} : \A b \in Range(q) : b.id < i
Sound(i) == ~sent[i].damaged /\ i \notin overwritten

(* After a package that was delivered the next one is, when nothing happened *)
(* to its own bytes ("The while loop ensures no package is omitted"): also   *)
(* when it came in pieces, or waited in the queue for the next callback.     *)
NoneOmittedAfterDelivered ==
    \A i \in DOMAIN sent :
        /\ Over(i) /\ Sound(i)
        /\ i > 1 => i - 1 \in Range(delivered)
        => i \in Range(delivered)

(* After any disturbance the parser finds its way back: bytes that look like *)
(* a head swallow at most the largest package, so a package is delivered     *)
(* when that many sound bytes without another head come before it.           *)
Reach == MAX_PAYLOAD_SIZE_ + CHECKSUM_LENGTH_
Clean(i) == Sound(i) /\ sent[i].content # HEAD_1_
LengthOf(j, i) == sent[i].before - sent[j].before

ResynchronizesWithinReach ==
    \A i \in DOMAIN sent :
        /\ Over(i)
        /\ \E j \in 1..(i - 1) : LengthOf(j, i) >= Reach /\ \A k \in j..i : Clean(k)
        => i \in Range(delivered)
=============================================================================
