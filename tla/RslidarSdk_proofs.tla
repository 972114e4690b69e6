------------------------- MODULE RslidarSdk_proofs -------------------------
(***************************************************************************)
(* SourceDriver for any clouds, destinations and frames: types, the        *)
(* exclusive use of clouds, the bound on their number, the quiet after     *)
(* stop(), and that the recycled clouds implement FrameChannel.            *)
(*                                                                         *)
(* RsNode for any number of sources and signals: all sources are stopped   *)
(* before the first is destroyed, and no node with a source ever returns   *)
(* from main().                                                            *)
(*                                                                         *)
(* RslidarSdk, the two together: each part behaves as its own module says, *)
(* so that all this holds of the process too.                              *)
(***************************************************************************)
EXTENDS RslidarSdk, FiniteSetTheorems, TLAPS

-----------------------------------------------------------------------------
(* What push() and pop() do to the contents of a queue. *)

LEMMA PushedRange ==
    ASSUME NEW S, NEW q \in Seq(S), NEW b \in S
    PROVE  /\ Append(q, b) \in Seq(S)
           /\ Range(Append(q, b)) = Range(q) \union {b}
           /\ Len(Append(q, b)) = Len(q) + 1
           /\ IsInjective(q) /\ b \notin Range(q) => IsInjective(Append(q, b))
  <1>1. /\ Append(q, b) \in Seq(S)
        /\ Len(q) \in Nat
        /\ Len(Append(q, b)) = Len(q) + 1
        /\ DOMAIN q = 1..Len(q)
        /\ DOMAIN Append(q, b) = 1..(Len(q) + 1)
        /\ \A i \in 1..Len(q) : Append(q, b)[i] = q[i]
        /\ Append(q, b)[Len(q) + 1] = b
    OBVIOUS
  <1>2. 1..(Len(q) + 1) = (1..Len(q)) \union {Len(q) + 1}
    BY <1>1
  <1>3. Range(Append(q, b)) = Range(q) \union {b}
    BY <1>1, <1>2 DEF Range
  <1>4. IsInjective(q) /\ b \notin Range(q) => IsInjective(Append(q, b))
    BY <1>1, <1>2 DEF Range, IsInjective
  <1> QED BY <1>1, <1>3, <1>4

LEMMA PoppedRange ==
    ASSUME NEW S, NEW q \in Seq(S), q # <<>>
    PROVE  /\ Tail(q) \in Seq(S)
           /\ Head(q) \in S
           /\ Head(q) \in Range(q)
           /\ Range(Tail(q)) \subseteq Range(q)
           /\ Len(Tail(q)) = Len(q) - 1
           /\ IsInjective(q) => IsInjective(Tail(q)) /\ Head(q) \notin Range(Tail(q))
  <1>1. /\ Tail(q) \in Seq(S) /\ Len(q) \in Nat \ {0} /\ Len(Tail(q)) = Len(q) - 1
        /\ Head(q) = q[1] /\ Head(q) \in S
        /\ DOMAIN q = 1..Len(q) /\ DOMAIN Tail(q) = 1..(Len(q) - 1)
        /\ \A i \in 1..(Len(q) - 1) : Tail(q)[i] = q[i + 1]
    OBVIOUS
  <1>2. \A i \in 1..(Len(q) - 1) : i + 1 \in 1..Len(q) /\ i + 1 # 1
    BY <1>1
  <1>3. ASSUME IsInjective(q)
        PROVE  IsInjective(Tail(q)) /\ Head(q) \notin Range(Tail(q))
    BY <1>1, <1>2, <1>3 DEF Range, IsInjective
  <1> QED BY <1>1, <1>2, <1>3 DEF Range

LEMMA EmptyRange == Range(<<>>) = {} /\ IsInjective(<<>>)
  BY DEF Range, IsInjective

LEMMA QueueElements == \A S : \A q \in Seq(S) : Range(q) \subseteq S
  BY DEF Range

(* The actions of Next, one to a case. *)
LEMMA NextCases ==
    ASSUME Next
    PROVE  \/ InitSource \/ RegPointCloudCallback \/ StartSource \/ Stop
           \/ StopDriver \/ RaiseExit \/ JoinPublisher
           \/ AddPoints \/ PutPointCloud \/ NextCloud \/ HandlerEnds
           \/ PublisherLoop \/ PublisherTimeout \/ PublisherTake \/ SendPointCloud
           \/ PublisherRecycle
  BY DEF Next, Own, FinishStop, Decode, Publish

(* getPointCloud() finds a cloud that was free or that nobody referred to.   *)
LEMMA PickCloudResult ==
    ASSUME TypeOK, NEW c \in Cloud, PickCloud(c)
    PROVE  /\ freeQueue' \in Seq(Cloud)
           /\ Range(freeQueue') \subseteq Range(freeQueue)
           /\ c \in Range(freeQueue) \/ c \notin Live
           /\ IsInjective(freeQueue) =>
                 IsInjective(freeQueue') /\ c \notin Range(freeQueue')
  <1>1. CASE freeQueue # <<>>
    <2>1. freeQueue \in Seq(Cloud) /\ c = Head(freeQueue) /\ freeQueue' = Tail(freeQueue)
      BY <1>1 DEF PickCloud, TypeOK
    <2> QED BY <1>1, <2>1, PoppedRange
  <1>2. CASE freeQueue = <<>>
    <2>1. Live \subseteq Cloud
      BY QueueElements DEF Live, TypeOK
    <2>2. c \in Cloud \ Live
      BY <1>2, <2>1 DEF PickCloud
    <2> QED BY <1>2, <2>2, EmptyRange DEF PickCloud
  <1> QED BY <1>1, <1>2

(* What it does to what is not free. *)
LEMMA GetPointCloudResult ==
    ASSUME TypeOK, CloudsExclusive, GetPointCloud
    PROVE  /\ current' \in Cloud
           /\ points' = [points EXCEPT ![current'] = FALSE]
           /\ freeQueue' \in Seq(Cloud) /\ IsInjective(freeQueue')
           /\ Range(freeQueue') \subseteq Range(freeQueue)
           /\ current' \notin Range(freeQueue') \union Range(cloudQueue) \union {publishing}
  <1>1. PICK c \in Cloud : /\ PickCloud(c)
                           /\ current' = c
                           /\ points' = [points EXCEPT ![c] = FALSE]
    BY DEF GetPointCloud
  <1>2. /\ freeQueue' \in Seq(Cloud)
        /\ Range(freeQueue') \subseteq Range(freeQueue)
        /\ c \in Range(freeQueue) \/ c \notin Live
        /\ IsInjective(freeQueue')
        /\ c \notin Range(freeQueue')
    BY <1>1, PickCloudResult DEF CloudsExclusive
  <1>3. c \notin Range(cloudQueue) \union {publishing}
    <2>1. CASE c \in Range(freeQueue)
      BY <2>1 DEF CloudsExclusive
    <2>2. CASE c \notin Live
      BY <2>2, ConstantsAssumption DEF Live
    <2> QED BY <1>2, <2>1, <2>2
  <1> QED BY <1>1, <1>2, <1>3

-----------------------------------------------------------------------------
(* Types, and how far the life of a source is when its publisher runs: there *)
(* is one only between init() and the join() that waited for its end.        *)
Life ==
    /\ publisher # "none" => joinable
    /\ owner \in {"new", "stopped", "terminated"} => ~joinable

Typing == TypeOK /\ Life

LEMMA TypingHolds == SafeSpec => []Typing
  <1>1. Init => Typing
    <2> SUFFICES ASSUME Init PROVE Typing
      OBVIOUS
    <2>1. /\ freeQueue \in Seq(Cloud) /\ cloudQueue \in Seq(Cloud)
          /\ destinations \in 0..MaxDest /\ made \in 0..MaxFrames /\ toSend \in 0..MaxDest
          /\ points \in [Cloud -> BOOLEAN] /\ seq \in [Cloud -> 0..MaxFrames]
          /\ peak \in Nat
      BY ConstantsAssumption DEF Init
    <2>2. /\ current = NoCloud /\ publishing = NoCloud /\ owner = "new"
          /\ publisher = "none" /\ decoder = "none"
          /\ started = FALSE /\ toExit = FALSE /\ joinable = FALSE
      BY DEF Init
    <2> QED BY <2>1, <2>2 DEF Typing, TypeOK, Life
  <1>2. Typing /\ [Next]_vars => Typing'
    <2> SUFFICES ASSUME TypeOK, Life, [Next]_vars PROVE TypeOK' /\ Life'
      BY DEF Typing
    <2> USE ConstantsAssumption DEF ownerVars, decoderVars, publisherVars
    <2>1. CASE InitSource
      <3>1. ASSUME GetPointCloud
            PROVE  /\ current' \in Cloud /\ freeQueue' \in Seq(Cloud)
                   /\ points' \in [Cloud -> BOOLEAN]
        <4>1. PICK c \in Cloud : /\ PickCloud(c) /\ current' = c
                                 /\ points' = [points EXCEPT ![c] = FALSE]
          BY <3>1 DEF GetPointCloud
        <4> QED BY <4>1, PickCloudResult DEF TypeOK
      <3>2. publisher = "none" /\ publishing = NoCloud
        BY <2>1 DEF InitSource, TypeOK, Life
      <3> QED BY <2>1, <3>1, <3>2 DEF InitSource, TypeOK, Life
    <2>2. CASE RegPointCloudCallback
      BY <2>2 DEF RegPointCloudCallback, TypeOK, Life
    <2>3. CASE StartSource
      BY <2>3 DEF StartSource, TypeOK, Life
    <2>4. CASE Stop
      BY <2>4 DEF Stop, TypeOK, Life
    <2>5. CASE StopDriver
      BY <2>5 DEF StopDriver, DriverStopped, TypeOK, Life
    <2>6. CASE RaiseExit
      BY <2>6 DEF RaiseExit, TypeOK, Life
    <2>7. CASE JoinPublisher
      BY <2>7 DEF JoinPublisher, PublisherEnded, TypeOK, Life
    <2>8. CASE AddPoints
      BY <2>8 DEF AddPoints, TypeOK, Life
    <2>9. CASE PutPointCloud
      <3>1. current \in Cloud
        BY <2>9 DEF PutPointCloud, TypeOK
      <3>2. cloudQueue' \in Seq(Cloud) /\ Len(cloudQueue) \in Nat
        BY <2>9, <3>1, PushedRange DEF PutPointCloud, TypeOK
      <3>3. made' \in 0..MaxFrames /\ seq' \in [Cloud -> 0..MaxFrames] /\ peak' \in Nat
        BY <2>9, <3>1, <3>2 DEF PutPointCloud, TypeOK
      <3> QED BY <2>9, <3>2, <3>3 DEF PutPointCloud, TypeOK, Life
    <2>10. CASE NextCloud
      <3>1. PICK c \in Cloud : /\ PickCloud(c) /\ current' = c
                               /\ points' = [points EXCEPT ![c] = FALSE]
        BY <2>10 DEF NextCloud, GetPointCloud
      <3>2. freeQueue' \in Seq(Cloud) /\ points' \in [Cloud -> BOOLEAN]
        BY <3>1, PickCloudResult DEF TypeOK
      <3> QED BY <2>10, <3>1, <3>2 DEF NextCloud, TypeOK, Life
    <2>11. CASE HandlerEnds
      BY <2>11 DEF HandlerEnds, TypeOK, Life
    <2>12. CASE PublisherLoop
      BY <2>12 DEF PublisherLoop, TypeOK, Life
    <2>13. CASE PublisherTimeout
      BY <2>13 DEF PublisherTimeout, TypeOK, Life
    <2>14. CASE PublisherTake
      <3>1. Head(cloudQueue) \in Cloud /\ Tail(cloudQueue) \in Seq(Cloud)
        BY <2>14, PoppedRange DEF PublisherTake, TypeOK
      <3> QED BY <2>14, <3>1 DEF PublisherTake, FreeAtTake, TypeOK, Life
    <2>15. CASE SendPointCloud
      BY <2>15 DEF SendPointCloud, TypeOK, Life
    <2>16. CASE PublisherRecycle
      <3>1. freeQueue' \in Seq(Cloud)
        BY <2>16, PushedRange DEF PublisherRecycle, TypeOK
      <3> QED BY <2>16, <3>1 DEF PublisherRecycle, TypeOK, Life
    <2>17. CASE UNCHANGED vars
      BY <2>17 DEF vars, TypeOK, Life
    <2> QED BY <2>1, <2>2, <2>3, <2>4, <2>5, <2>6, <2>7, <2>8, <2>9, <2>10, <2>11, <2>12,
               <2>13, <2>14, <2>15, <2>16, <2>17, NextCases
  <1> QED BY <1>1, <1>2, PTL DEF SafeSpec

(* Types, and what each thread holds in each of its states. *)
THEOREM TypeCorrect == SafeSpec => []TypeOK
  BY TypingHolds, PTL DEF Typing

-----------------------------------------------------------------------------
(* A cloud is in one place, whatever the three threads do: the decoder       *)
(* writes none that waits, is published or is free.                          *)
THEOREM CloudsAreExclusive == SafeSpec => []CloudsExclusive
  <1>1. Init => CloudsExclusive
    BY EmptyRange DEF Init, CloudsExclusive
  <1>2. Typing /\ CloudsExclusive /\ [Next]_vars => CloudsExclusive'
    <2> SUFFICES ASSUME TypeOK, Life, CloudsExclusive, [Next]_vars PROVE CloudsExclusive'
      BY DEF Typing
    <2> USE ConstantsAssumption DEF ownerVars, decoderVars, publisherVars
    <2>1. ASSUME GetPointCloud, UNCHANGED <<cloudQueue, publishing>> PROVE CloudsExclusive'
      <3>1. /\ IsInjective(freeQueue') /\ Range(freeQueue') \subseteq Range(freeQueue)
            /\ current' \notin Range(freeQueue') \union Range(cloudQueue) \union {publishing}
        BY <2>1, GetPointCloudResult
      <3> QED BY <2>1, <3>1 DEF CloudsExclusive
    <2>2. CASE InitSource
      <3>1. ASSUME owner' = "exited" PROVE CloudsExclusive'
        BY <2>2, <3>1 DEF InitSource, TypeOK, CloudsExclusive
      <3> QED BY <2>1, <2>2, <3>1 DEF InitSource
    <2>3. CASE PutPointCloud
      <3>1. current \in Cloud /\ current # NoCloud /\ decoder # "get"
        BY <2>3 DEF PutPointCloud, TypeOK
      <3>2. current \notin Range(freeQueue) \union Range(cloudQueue) \union {publishing}
        BY <3>1 DEF CloudsExclusive
      <3>3. /\ Range(cloudQueue') = Range(cloudQueue) \union {current}
            /\ IsInjective(cloudQueue')
        BY <2>3, <3>1, <3>2, PushedRange DEF PutPointCloud, TypeOK, CloudsExclusive
      <3>4. /\ decoder' = "get" /\ freeQueue' = freeQueue /\ publishing' = publishing
        BY <2>3 DEF PutPointCloud
      <3> QED BY <3>2, <3>3, <3>4 DEF CloudsExclusive
    <2>4. CASE NextCloud
      BY <2>1, <2>4 DEF NextCloud
    <2>5. CASE PublisherTake
      <3>1. /\ Head(cloudQueue) \in Range(cloudQueue)
            /\ Range(cloudQueue') \subseteq Range(cloudQueue)
            /\ IsInjective(cloudQueue') /\ Head(cloudQueue) \notin Range(cloudQueue')
        BY <2>5, PoppedRange DEF PublisherTake, TypeOK, CloudsExclusive
      <3>2. /\ publishing' = Head(cloudQueue) /\ freeQueue' = freeQueue
            /\ current' = current /\ decoder' = decoder
        BY <2>5 DEF PublisherTake, FreeAtTake
      <3> QED BY <3>1, <3>2 DEF CloudsExclusive
    <2>6. CASE PublisherRecycle
      <3>1. publishing \in Cloud /\ publishing # NoCloud
        BY <2>6 DEF PublisherRecycle, TypeOK
      <3>2. /\ Range(freeQueue') = Range(freeQueue) \union {publishing}
            /\ IsInjective(freeQueue')
        BY <2>6, <3>1, PushedRange DEF PublisherRecycle, TypeOK, CloudsExclusive
      <3>3. /\ publishing' = NoCloud /\ cloudQueue' = cloudQueue
            /\ current' = current /\ decoder' = decoder
        BY <2>6 DEF PublisherRecycle
      <3>4. NoCloud \notin Range(freeQueue') \union Range(cloudQueue)
        BY <3>1, <3>2, QueueElements DEF TypeOK
      <3> QED BY <3>1, <3>2, <3>3, <3>4 DEF CloudsExclusive
    <2>7. ASSUME UNCHANGED <<current, freeQueue, cloudQueue, publishing>>,
                 decoder = "get" => decoder' = "get"
          PROVE  CloudsExclusive'
      BY <2>7 DEF CloudsExclusive
    <2>8. ASSUME RegPointCloudCallback \/ Stop \/ StopDriver \/ RaiseExit \/ JoinPublisher
                 \/ AddPoints
          PROVE  CloudsExclusive'
      BY <2>7, <2>8 DEF RegPointCloudCallback, Stop, StopDriver, RaiseExit, JoinPublisher,
                        AddPoints
    <2>9. ASSUME HandlerEnds \/ PublisherLoop \/ PublisherTimeout \/ SendPointCloud
          PROVE  CloudsExclusive'
      BY <2>7, <2>9 DEF HandlerEnds, PublisherLoop, PublisherTimeout, SendPointCloud
    <2>10. CASE StartSource
      BY <2>7, <2>10 DEF StartSource, TypeOK
    <2>11. CASE UNCHANGED vars
      BY <2>7, <2>11 DEF vars
    <2> QED BY <2>2, <2>3, <2>4, <2>5, <2>6, <2>8, <2>9, <2>10, <2>11, NextCases
  <1> QED BY <1>1, <1>2, TypingHolds, PTL DEF SafeSpec

-----------------------------------------------------------------------------
(* What waits or is published is a frame: it holds points and its number. *)
Filled ==
    \A c \in Range(cloudQueue) \union ({publishing} \ {NoCloud}) : points[c] /\ seq[c] # 0

LEMMA FilledHolds == SafeSpec => []Filled
  <1>1. Init => Filled
    BY EmptyRange DEF Init, Filled
  <1>2. Typing /\ CloudsExclusive /\ Filled /\ [Next]_vars => Filled'
    <2> SUFFICES ASSUME TypeOK, Life, CloudsExclusive, Filled, [Next]_vars PROVE Filled'
      BY DEF Typing
    <2> USE ConstantsAssumption DEF ownerVars, decoderVars, publisherVars
    <2>0. Range(cloudQueue) \subseteq Cloud
      BY QueueElements DEF TypeOK
    <2>1. ASSUME GetPointCloud, UNCHANGED <<cloudQueue, publishing, seq>> PROVE Filled'
      <3>1. /\ points' = [points EXCEPT ![current'] = FALSE]
            /\ current' \notin Range(cloudQueue) \union {publishing}
        BY <2>1, GetPointCloudResult
      <3>2. \A c \in Range(cloudQueue) \union ({publishing} \ {NoCloud}) : points'[c] = points[c]
        BY <2>0, <3>1 DEF TypeOK
      <3> QED BY <2>1, <3>2 DEF Filled
    <2>2. CASE InitSource
      BY <2>1, <2>2 DEF InitSource, Filled
    <2>3. CASE PutPointCloud
      <3>1. current \in Cloud /\ current # NoCloud /\ points[current] /\ made \in Nat
        BY <2>3 DEF PutPointCloud, TypeOK
      <3>2. Range(cloudQueue') = Range(cloudQueue) \union {current}
        BY <2>3, <3>1, PushedRange DEF PutPointCloud, TypeOK
      <3>3. seq' = [seq EXCEPT ![current] = made + 1] /\ points' = points
            /\ publishing' = publishing
        BY <2>3 DEF PutPointCloud
      <3>4. \A c \in Cloud : seq'[c] = IF c = current THEN made + 1 ELSE seq[c]
        BY <3>1, <3>3 DEF TypeOK
      <3>5. made + 1 # 0
        BY <3>1
      <3>6. Range(cloudQueue) \union ({publishing} \ {NoCloud}) \subseteq Cloud
        BY <2>0 DEF TypeOK
      <3> QED BY <3>1, <3>2, <3>3, <3>4, <3>5, <3>6 DEF Filled
    <2>4. CASE NextCloud
      BY <2>1, <2>4 DEF NextCloud
    <2>5. CASE PublisherTake
      <3>1. /\ Head(cloudQueue) \in Range(cloudQueue)
            /\ Range(Tail(cloudQueue)) \subseteq Range(cloudQueue)
        BY <2>5, PoppedRange DEF PublisherTake, TypeOK
      <3> QED BY <2>5, <3>1 DEF PublisherTake, Filled
    <2>6. CASE PublisherRecycle
      BY <2>6 DEF PublisherRecycle, Filled
    <2>7. CASE StopDriver
      <3>1. current \in Cloud /\ decoder # "get" /\ current # NoCloud
        BY <2>7 DEF StopDriver, DriverStopped, TypeOK
      <3>2. current \notin Range(cloudQueue) \union {publishing}
        BY <3>1 DEF CloudsExclusive
      <3>3. /\ points' = [points EXCEPT ![current] = FALSE]
            /\ UNCHANGED <<cloudQueue, publishing, seq>>
        BY <2>7 DEF StopDriver
      <3>4. \A c \in Range(cloudQueue) \union ({publishing} \ {NoCloud}) : points'[c] = points[c]
        BY <2>0, <3>2, <3>3 DEF TypeOK
      <3> QED BY <3>3, <3>4 DEF Filled
    <2>8. CASE AddPoints
      <3>1. /\ points' = [points EXCEPT ![current] = TRUE]
            /\ UNCHANGED <<cloudQueue, publishing, seq>>
        BY <2>8 DEF AddPoints
      <3>2. \A c \in Cloud : points[c] => points'[c]
        BY <3>1 DEF TypeOK
      <3>3. Range(cloudQueue) \union ({publishing} \ {NoCloud}) \subseteq Cloud
        BY <2>0 DEF TypeOK
      <3> QED BY <3>1, <3>2, <3>3 DEF Filled
    <2>9. ASSUME UNCHANGED <<points, seq, cloudQueue, publishing>> PROVE Filled'
      BY <2>9 DEF Filled
    <2>10. ASSUME RegPointCloudCallback \/ StartSource \/ Stop \/ RaiseExit \/ JoinPublisher
           PROVE  Filled'
      BY <2>9, <2>10 DEF RegPointCloudCallback, StartSource, Stop, RaiseExit, JoinPublisher
    <2>11. ASSUME HandlerEnds \/ PublisherLoop \/ PublisherTimeout \/ SendPointCloud
           PROVE  Filled'
      BY <2>9, <2>11 DEF HandlerEnds, PublisherLoop, PublisherTimeout, SendPointCloud
    <2>12. CASE UNCHANGED vars
      BY <2>9, <2>12 DEF vars
    <2> QED BY <2>2, <2>3, <2>4, <2>5, <2>6, <2>7, <2>8, <2>10, <2>11, <2>12, NextCases
  <1> QED BY <1>1, <1>2, TypingHolds, CloudsAreExclusive, PTL DEF SafeSpec

-----------------------------------------------------------------------------
(* After stop() has returned, or has ended the process, no cloud changes     *)
(* hands, is written to or is published: both threads are gone for good.     *)
THEOREM SourceIsQuietAfterStop == SafeSpec => QuietAfterStop
  <1>1. ASSUME Typing, [Next]_vars
        PROVE  [(owner = "stopped" \/ owner = "terminated") =>
                   UNCHANGED <<decoderVars, publisherVars, freeQueue, cloudQueue,
                               points, seq>>]_vars
    <2> SUFFICES ASSUME Next, owner = "stopped" \/ owner = "terminated"
                 PROVE  UNCHANGED <<decoderVars, publisherVars, freeQueue, cloudQueue,
                                    points, seq>>
      BY <1>1
    <2>1. publisher = "none" /\ decoder = "none"
      BY <1>1 DEF Typing, Life, TypeOK
    <2>2. ~(PublisherLoop \/ PublisherTimeout \/ PublisherTake \/ SendPointCloud
            \/ PublisherRecycle)
      BY <2>1 DEF PublisherLoop, PublisherTimeout, PublisherTake, SendPointCloud,
                  PublisherRecycle
    <2>3. ~(AddPoints \/ PutPointCloud \/ NextCloud \/ HandlerEnds)
      BY <2>1 DEF AddPoints, PutPointCloud, NextCloud, HandlerEnds
    <2>4. ~(InitSource \/ RegPointCloudCallback \/ StartSource \/ StopDriver \/ RaiseExit
            \/ JoinPublisher)
      BY DEF InitSource, RegPointCloudCallback, MayRegister, StartSource, StopDriver,
             RaiseExit, JoinPublisher
    <2>5. Stop
      BY <2>2, <2>3, <2>4, NextCases
    <2> QED BY <2>5 DEF Stop
  <1> QED BY <1>1, TypingHolds, PTL DEF SafeSpec, QuietAfterStop
LEMMA RangeCardinality ==
    ASSUME NEW S, NEW V, IsFiniteSet(S), NEW f \in [S -> V]
    PROVE  /\ IsFiniteSet(Range(f))
           /\ Cardinality(Range(f)) \in Nat
           /\ Cardinality(Range(f)) <= Cardinality(S)
  <1>1. f \in Surjection(S, Range(f))
    BY DEF Surjection, Range
  <1> QED BY <1>1, FS_Surjection, FS_CardinalityType

LEMMA QueueCardinality ==
    ASSUME NEW S, NEW q \in Seq(S)
    PROVE  /\ IsFiniteSet(Range(q))
           /\ Cardinality(Range(q)) \in Nat
           /\ Cardinality(Range(q)) <= Len(q)
  <1>1. q \in [1..Len(q) -> S] /\ Len(q) \in Nat
    OBVIOUS
  <1>2. IsFiniteSet(1..Len(q)) /\ Cardinality(1..Len(q)) = Len(q)
    <2>1. /\ IsFiniteSet(1..Len(q))
          /\ Cardinality(1..Len(q)) = IF 1 > Len(q) THEN 0 ELSE Len(q) - 1 + 1
      BY <1>1, FS_Interval
    <2> QED BY <1>1, <2>1
  <1> QED BY <1>1, <1>2, RangeCardinality

LEMMA UnionBound ==
    ASSUME NEW S, NEW T, IsFiniteSet(S), IsFiniteSet(T)
    PROVE  /\ IsFiniteSet(S \union T)
           /\ Cardinality(S \union T) \in Nat
           /\ Cardinality(S \union T) <= Cardinality(S) + Cardinality(T)
           /\ S \intersect T = {} => Cardinality(S \union T) = Cardinality(S) + Cardinality(T)
  <1>1. Cardinality(S) \in Nat /\ Cardinality(T) \in Nat
    BY FS_CardinalityType
  <1>2. IsFiniteSet(S \intersect T)
    BY FS_Intersection
  <1>3. Cardinality(S \intersect T) \in Nat
    BY <1>2, FS_CardinalityType
  <1>4. S \intersect T = {} => Cardinality(S \intersect T) = 0
    BY FS_EmptySet
  <1>5. /\ IsFiniteSet(S \union T)
        /\ Cardinality(S \union T) = Cardinality(S) + Cardinality(T) - Cardinality(S \intersect T)
    BY FS_Union
  <1>6. Cardinality(S \union T) \in Nat
    BY <1>5, FS_CardinalityType
  <1> QED BY <1>1, <1>3, <1>4, <1>5, <1>6


LEMMA PairCardinality ==
    ASSUME NEW a, NEW b, NEW c
    PROVE  /\ IsFiniteSet({a, b} \ {c})
           /\ Cardinality({a, b} \ {c}) <= 2
  <1>1. IsFiniteSet({a}) /\ Cardinality({a}) = 1 /\ IsFiniteSet({b}) /\ Cardinality({b}) = 1
    BY FS_Singleton
  <1>2. {a} \union {b} = {a, b}
    OBVIOUS
  <1>3. /\ IsFiniteSet({a, b}) /\ Cardinality({a, b}) \in Nat
        /\ Cardinality({a, b}) <= 1 + 1
    BY <1>1, <1>2, UnionBound
  <1>4. /\ IsFiniteSet({a, b} \ {c})
        /\ Cardinality({a, b} \ {c}) <= Cardinality({a, b})
    BY <1>3, FS_Subset
  <1>5. Cardinality({a, b} \ {c}) \in Nat
    BY <1>4, FS_CardinalityType
  <1> QED BY <1>3, <1>4, <1>5

-----------------------------------------------------------------------------
(* There never are more clouds than were waiting at once, and two: a cloud   *)
(* is allocated only when the free queue is empty, and then the others wait, *)
(* or one of the threads has them.                                           *)
Sized ==
    /\ IsFiniteSet(Live) /\ Cardinality(Live) <= peak + 2
    /\ Len(cloudQueue) <= peak

LEMMA SizedKept ==
    ASSUME TypeOK, Sized, Live' \subseteq Live, peak' \in Nat, peak <= peak',
           Len(cloudQueue') <= peak'
    PROVE  Sized'
  <1>1. /\ IsFiniteSet(Live') /\ Cardinality(Live') <= Cardinality(Live)
        /\ Cardinality(Live) \in Nat
    BY FS_Subset, FS_CardinalityType DEF Sized
  <1>2. Cardinality(Live') \in Nat
    BY <1>1, FS_CardinalityType
  <1> QED BY <1>1, <1>2 DEF Sized, TypeOK

LEMMA SizedHolds == SafeSpec => []Sized
  <1>1. Init => Sized
    <2> SUFFICES ASSUME Init PROVE Sized
      OBVIOUS
    <2>1. Live = {}
      BY EmptyRange DEF Init, Live
    <2>2. IsFiniteSet({}) /\ Cardinality({}) = 0
      BY FS_EmptySet
    <2>3. peak = 0 /\ Len(cloudQueue) = 0
      BY DEF Init
    <2> QED BY <2>1, <2>2, <2>3 DEF Sized
  <1>2. Typing /\ Sized /\ [Next]_vars => Sized'
    <2> SUFFICES ASSUME TypeOK, Sized, [Next]_vars PROVE Sized'
      BY DEF Typing
    <2> USE ConstantsAssumption DEF ownerVars, decoderVars, publisherVars
    <2>0. /\ peak \in Nat /\ Len(cloudQueue) \in Nat /\ Len(cloudQueue) <= peak
          /\ freeQueue \in Seq(Cloud) /\ cloudQueue \in Seq(Cloud)
      BY DEF TypeOK, Sized
    <2>1. ASSUME GetPointCloud, UNCHANGED <<cloudQueue, publishing, peak>> PROVE Sized'
      <3>1. PICK c \in Cloud : PickCloud(c) /\ current' = c
        BY <2>1 DEF GetPointCloud
      <3>2. CASE freeQueue # <<>>
        <4>1. c \in Range(freeQueue) /\ Range(freeQueue') \subseteq Range(freeQueue)
          BY <2>0, <3>1, <3>2, PoppedRange DEF PickCloud
        <4>2. c # NoCloud
          BY <3>1
        <4>3. Live' \subseteq Live
          BY <2>1, <3>1, <4>1, <4>2 DEF Live
        <4> QED BY <2>0, <2>1, <4>3, SizedKept
      <3>3. CASE freeQueue = <<>>
        <4>1. Range(freeQueue') = {}
          BY <3>1, <3>3, EmptyRange DEF PickCloud
        <4>2. Live' = Range(cloudQueue) \union ({c, publishing} \ {NoCloud})
          BY <2>1, <3>1, <4>1 DEF Live
        <4>3. /\ IsFiniteSet(Range(cloudQueue)) /\ Cardinality(Range(cloudQueue)) \in Nat
              /\ Cardinality(Range(cloudQueue)) <= Len(cloudQueue)
          BY <2>0, QueueCardinality
        <4>4. /\ IsFiniteSet({c, publishing} \ {NoCloud})
              /\ Cardinality({c, publishing} \ {NoCloud}) <= 2
          BY PairCardinality
        <4>5. Cardinality({c, publishing} \ {NoCloud}) \in Nat
          BY <4>4, FS_CardinalityType
        <4>6. /\ IsFiniteSet(Live') /\ Cardinality(Live') \in Nat
              /\ Cardinality(Live') <= Cardinality(Range(cloudQueue))
                                          + Cardinality({c, publishing} \ {NoCloud})
          BY <4>2, <4>3, <4>4, UnionBound
        <4>7. Cardinality(Live') <= peak + 2
          BY <2>0, <4>3, <4>4, <4>5, <4>6
        <4> QED BY <2>0, <2>1, <4>6, <4>7 DEF Sized
      <3> QED BY <3>2, <3>3
    <2>2. CASE InitSource
      <3>1. ASSUME UNCHANGED <<current, freeQueue>> PROVE Sized'
        BY <2>2, <3>1 DEF InitSource, Sized, Live
      <3> QED BY <2>1, <2>2, <3>1 DEF InitSource
    <2>3. CASE PutPointCloud
      <3>1. current \in Cloud
        BY <2>3 DEF PutPointCloud, TypeOK
      <3>2. /\ Range(cloudQueue') = Range(cloudQueue) \union {current}
            /\ Len(cloudQueue') = Len(cloudQueue) + 1
        BY <2>0, <2>3, <3>1, PushedRange DEF PutPointCloud
      <3>3. UNCHANGED <<current, publishing, freeQueue>>
        BY <2>3 DEF PutPointCloud
      <3>4. Live' \subseteq Live
        BY <3>1, <3>2, <3>3 DEF Live
      <3>5. peak' \in Nat /\ peak <= peak' /\ Len(cloudQueue) + 1 <= peak'
        BY <2>0, <2>3 DEF PutPointCloud
      <3> QED BY <3>2, <3>4, <3>5, SizedKept
    <2>4. CASE NextCloud
      BY <2>1, <2>4 DEF NextCloud
    <2>5. CASE PublisherTake
      <3>1. /\ Head(cloudQueue) \in Range(cloudQueue) /\ Head(cloudQueue) \in Cloud
            /\ Range(cloudQueue') \subseteq Range(cloudQueue)
            /\ Len(cloudQueue') = Len(cloudQueue) - 1
        BY <2>0, <2>5, PoppedRange DEF PublisherTake
      <3>2. publishing' = Head(cloudQueue) /\ UNCHANGED <<current, freeQueue, peak>>
        BY <2>5 DEF PublisherTake, FreeAtTake
      <3>3. Live' \subseteq Live
        BY <3>1, <3>2 DEF Live
      <3>4. Len(cloudQueue') <= peak' /\ peak <= peak' /\ peak' \in Nat
        BY <2>0, <3>1, <3>2
      <3> QED BY <3>3, <3>4, SizedKept
    <2>6. CASE PublisherRecycle
      <3>1. publishing \in Cloud /\ publishing # NoCloud
        BY <2>6 DEF PublisherRecycle, TypeOK
      <3>2. Range(freeQueue') = Range(freeQueue) \union {publishing}
        BY <2>0, <2>6, <3>1, PushedRange DEF PublisherRecycle
      <3>3. publishing' = NoCloud /\ UNCHANGED <<current, cloudQueue, peak>>
        BY <2>6 DEF PublisherRecycle
      <3>4. Live' \subseteq Live
        BY <3>1, <3>2, <3>3 DEF Live
      <3> QED BY <2>0, <3>3, <3>4, SizedKept
    <2>7. ASSUME UNCHANGED <<current, freeQueue, cloudQueue, publishing, peak>>
          PROVE  Sized'
      BY <2>7 DEF Sized, Live
    <2>8. ASSUME RegPointCloudCallback \/ StartSource \/ Stop \/ StopDriver \/ RaiseExit
                 \/ JoinPublisher
          PROVE  Sized'
      BY <2>7, <2>8 DEF RegPointCloudCallback, StartSource, Stop, StopDriver, RaiseExit,
                        JoinPublisher
    <2>9. ASSUME AddPoints \/ HandlerEnds \/ PublisherLoop \/ PublisherTimeout
                 \/ SendPointCloud
          PROVE  Sized'
      BY <2>7, <2>9 DEF AddPoints, HandlerEnds, PublisherLoop, PublisherTimeout,
                        SendPointCloud
    <2>10. CASE UNCHANGED vars
      BY <2>7, <2>10 DEF vars
    <2> QED BY <2>2, <2>3, <2>4, <2>5, <2>6, <2>8, <2>9, <2>10, NextCases
  <1> QED BY <1>1, <1>2, TypingHolds, PTL DEF SafeSpec

(* getPointCloud() allocates only when nothing is free: the memory of a      *)
(* source follows the longest backlog it had, not the time it runs.          *)
THEOREM AllocationIsBounded == SafeSpec => []AllocationFollowsBacklog
  <1>1. Sized => AllocationFollowsBacklog
    BY DEF Sized, AllocationFollowsBacklog
  <1> QED BY <1>1, SizedHolds, PTL

-----------------------------------------------------------------------------
(* The recycled clouds are a channel of frames: a step that changes a cloud  *)
(* changes one that neither waits nor is published, so what is published is  *)
(* what was split, each frame once and in order.                             *)
THEOREM ImplementsChannel == SafeSpec => Channel!SafeSpec
  <1> DEFINE frame(c) == IF points[c] THEN seq[c] ELSE 0
             pend == [i \in 1..Len(cloudQueue) |-> frame(cloudQueue[i])]
             publ == IF publishing = NoCloud THEN 0 ELSE frame(publishing)
             clos == owner \notin {"new", "registering", "started"}
  <1>1. Init => Channel!Init
    BY DEF Init, Channel!Init
  <1>2. Typing /\ CloudsExclusive /\ Filled /\ [Next]_vars => [Channel!Next]_Channel!vars
    <2> SUFFICES ASSUME TypeOK, CloudsExclusive, Filled, [Next]_vars
                 PROVE  [Channel!Next]_Channel!vars
      BY DEF Typing
    <2> USE ConstantsAssumption DEF ownerVars, decoderVars, publisherVars
    <2>0. /\ cloudQueue \in Seq(Cloud) /\ Len(cloudQueue) \in Nat
          /\ \A i \in 1..Len(cloudQueue) : /\ cloudQueue[i] \in Cloud
                                           /\ cloudQueue[i] \in Range(cloudQueue)
      BY DEF TypeOK, Range
    <2>1. ASSUME UNCHANGED <<cloudQueue, publishing, seq, points>>
          PROVE  pend' = pend /\ publ' = publ
      BY <2>1
    <2>2. ASSUME NEW c \in Cloud, NEW b \in BOOLEAN,
                 c \notin Range(cloudQueue) \union {publishing},
                 points' = [points EXCEPT ![c] = b],
                 UNCHANGED <<cloudQueue, publishing, seq>>
          PROVE  pend' = pend /\ publ' = publ
      <3>1. \A d \in Cloud : d # c => points'[d] = points[d]
        BY <2>2 DEF TypeOK
      <3>2. \A i \in 1..Len(cloudQueue) : points'[cloudQueue[i]] = points[cloudQueue[i]]
        BY <2>0, <2>2, <3>1
      <3>3. pend' = pend
        BY <2>2, <3>2
      <3>4. publ' = publ
        BY <2>2, <3>1 DEF TypeOK
      <3> QED BY <3>3, <3>4
    <2>3. ASSUME GetPointCloud, UNCHANGED <<cloudQueue, publishing, seq>>
          PROVE  pend' = pend /\ publ' = publ
      <3> HIDE DEF pend, publ
      <3> QED BY <2>2, <2>3, GetPointCloudResult
    <2>4. CASE InitSource
      <3>1. pend' = pend /\ publ' = publ /\ made' = made
        <4> HIDE DEF pend, publ
        <4> QED BY <2>1, <2>3, <2>4 DEF InitSource
      <3>2. clos' = clos \/ clos' = TRUE
        BY <2>4 DEF InitSource
      <3> QED BY <3>1, <3>2 DEF Channel!Next, Channel!Close, Channel!vars
    <2>5. CASE Stop
      <3>1. pend' = pend /\ publ' = publ /\ made' = made
        BY <2>5, <2>1 DEF Stop
      <3>2. clos' = TRUE
        BY <2>5 DEF Stop
      <3> QED BY <3>1, <3>2 DEF Channel!Next, Channel!Close
    <2>6. CASE StopDriver
      <3>1. current \in Cloud /\ current \notin Range(cloudQueue) \union {publishing}
        BY <2>6 DEF StopDriver, DriverStopped, TypeOK, CloudsExclusive
      <3>2. pend' = pend /\ publ' = publ
        <4> HIDE DEF pend, publ
        <4> QED BY <2>2, <2>6, <3>1 DEF StopDriver
      <3>3. made' = made /\ clos' = clos
        BY <2>6 DEF StopDriver
      <3> QED BY <3>2, <3>3 DEF Channel!vars
    <2>7. CASE AddPoints
      <3>1. current \in Cloud /\ current \notin Range(cloudQueue) \union {publishing}
        BY <2>7 DEF AddPoints, TypeOK, CloudsExclusive
      <3>2. pend' = pend /\ publ' = publ
        <4> HIDE DEF pend, publ
        <4> QED BY <2>2, <2>7, <3>1 DEF AddPoints
      <3>3. made' = made /\ clos' = clos
        BY <2>7 DEF AddPoints
      <3> QED BY <3>2, <3>3 DEF Channel!vars
    <2>8. CASE NextCloud
      <3>1. pend' = pend /\ publ' = publ
        <4> HIDE DEF pend, publ
        <4> QED BY <2>3, <2>8 DEF NextCloud
      <3>2. made' = made /\ clos' = clos
        BY <2>8 DEF NextCloud
      <3> QED BY <3>1, <3>2 DEF Channel!vars
    <2>9. CASE PutPointCloud
      <3>1. /\ current \in Cloud /\ points[current]
            /\ current \notin Range(cloudQueue) \union {publishing}
            /\ made \in Nat
        BY <2>9 DEF PutPointCloud, TypeOK, CloudsExclusive
      <3>2. /\ made' = made + 1 /\ points' = points /\ publishing' = publishing
            /\ owner' = owner
            /\ seq'[current] = made + 1
            /\ \A d \in Cloud : d # current => seq'[d] = seq[d]
        BY <2>9, <3>1 DEF PutPointCloud, TypeOK
      <3>3. /\ cloudQueue' = Append(cloudQueue, current)
            /\ Len(cloudQueue') = Len(cloudQueue) + 1
            /\ \A i \in 1..Len(cloudQueue) : cloudQueue'[i] = cloudQueue[i]
            /\ cloudQueue'[Len(cloudQueue) + 1] = current
        BY <2>0, <2>9, <3>1 DEF PutPointCloud
      <3>4. \A i \in 1..Len(cloudQueue) :
               /\ points'[cloudQueue'[i]] = points[cloudQueue[i]]
               /\ seq'[cloudQueue'[i]] = seq[cloudQueue[i]]
        BY <2>0, <3>1, <3>2, <3>3
      <3>5. pend' = Append(pend, made + 1)
        <4>1. pend' = [i \in 1..(Len(cloudQueue) + 1) |->
                          IF points'[cloudQueue'[i]] THEN seq'[cloudQueue'[i]] ELSE 0]
          BY <3>3
        <4>2. /\ points'[cloudQueue'[Len(cloudQueue) + 1]]
              /\ seq'[cloudQueue'[Len(cloudQueue) + 1]] = made + 1
          BY <3>1, <3>2, <3>3
        <4>3. pend \in Seq(Nat) /\ Len(pend) = Len(cloudQueue)
          <5>1. \A c \in Cloud : frame(c) \in Nat
            BY DEF TypeOK
          <5> QED BY <2>0, <5>1
        <4>4. Append(pend, made + 1) = [i \in 1..(Len(cloudQueue) + 1) |->
                     IF i = Len(cloudQueue) + 1 THEN made + 1 ELSE pend[i]]
          BY <2>0, <3>1, <4>3
        <4> QED BY <2>0, <3>4, <4>1, <4>2, <4>4
      <3>6. publ' = publ
        BY <3>1, <3>2 DEF TypeOK
      <3>7. clos' = clos
        BY <3>2
      <3> QED BY <3>2, <3>5, <3>6, <3>7 DEF Channel!Next, Channel!Make
    <2>10. CASE PublisherTake
      <3>1. /\ cloudQueue # <<>> /\ publishing = NoCloud
            /\ publishing' = Head(cloudQueue) /\ cloudQueue' = Tail(cloudQueue)
            /\ UNCHANGED <<points, seq, made, owner>>
        BY <2>10 DEF PublisherTake, TypeOK
      <3>2. /\ Len(cloudQueue) \in Nat \ {0}
            /\ Len(cloudQueue') = Len(cloudQueue) - 1
            /\ \A i \in 1..(Len(cloudQueue) - 1) : cloudQueue'[i] = cloudQueue[i + 1]
            /\ Head(cloudQueue) = cloudQueue[1]
        BY <2>0, <3>1
      <3>3. pend \in Seq(Nat) /\ Len(pend) = Len(cloudQueue) /\ pend # <<>>
        <4>1. \A c \in Cloud : frame(c) \in Nat
          BY DEF TypeOK
        <4> QED BY <2>0, <3>2, <4>1
      <3>4. pend' = Tail(pend)
        <4>1. Tail(pend) = [i \in 1..(Len(cloudQueue) - 1) |-> pend[i + 1]]
          BY <3>2, <3>3
        <4>2. \A i \in 1..(Len(cloudQueue) - 1) : pend[i + 1] = frame(cloudQueue'[i])
          BY <3>2
        <4>3. pend' = [i \in 1..(Len(cloudQueue) - 1) |-> frame(cloudQueue'[i])]
          BY <3>1, <3>2
        <4>4. [i \in 1..(Len(cloudQueue) - 1) |-> pend[i + 1]]
                = [i \in 1..(Len(cloudQueue) - 1) |-> frame(cloudQueue'[i])]
          <5> HIDE DEF pend, frame
          <5> QED BY <4>2, Zenon
        <4> QED
          <5> HIDE DEF pend, frame
          <5> QED BY <4>1, <4>3, <4>4, Zenon
      <3>5. publ = 0 /\ publ' = Head(pend)
        <4>1. publ = 0
          BY <3>1
        <4>2. Head(pend) = pend[1]
          <5> HIDE DEF pend
          <5> QED BY <3>3
        <4>3. 1 \in 1..Len(cloudQueue)
          BY <3>2
        <4>4. pend[1] = frame(cloudQueue[1])
          BY <4>3
        <4>5. publishing' = cloudQueue[1] /\ cloudQueue[1] # NoCloud
          BY <2>0, <3>1, <3>2
        <4>6. publ' = frame(cloudQueue[1])
          BY <3>1, <4>5
        <4> QED BY <4>1, <4>2, <4>4, <4>6
      <3>6. clos' = clos
        BY <3>1
      <3> QED BY <3>1, <3>3, <3>4, <3>5, <3>6 DEF Channel!Next, Channel!Take
    <2>11. CASE PublisherRecycle
      <3>1. /\ publishing \in Cloud /\ publishing # NoCloud /\ publishing' = NoCloud
            /\ UNCHANGED <<cloudQueue, points, seq, made, owner>>
        BY <2>11 DEF PublisherRecycle, TypeOK
      <3>2. publ # 0 /\ publ' = 0
        BY <3>1 DEF Filled
      <3>3. pend' = pend /\ clos' = clos
        BY <3>1
      <3> QED BY <3>1, <3>2, <3>3 DEF Channel!Next, Channel!Publish
    <2>12. ASSUME UNCHANGED <<cloudQueue, publishing, seq, points, made>>, clos' = clos
           PROVE  UNCHANGED Channel!vars
      BY <2>1, <2>12 DEF Channel!vars
    <2>13. ASSUME RegPointCloudCallback \/ StartSource \/ RaiseExit \/ JoinPublisher
                  \/ HandlerEnds
           PROVE  UNCHANGED Channel!vars
      <3>1. UNCHANGED <<cloudQueue, publishing, seq, points, made>>
        BY <2>13 DEF RegPointCloudCallback, StartSource, RaiseExit, JoinPublisher,
                     HandlerEnds
      <3>2. clos' = clos
        BY <2>13 DEF RegPointCloudCallback, MayRegister, StartSource, RaiseExit,
                     JoinPublisher, HandlerEnds
      <3> HIDE DEF clos
      <3> QED BY <2>12, <3>1, <3>2
    <2>14. ASSUME PublisherLoop \/ PublisherTimeout \/ SendPointCloud
           PROVE  UNCHANGED Channel!vars
      BY <2>12, <2>14 DEF PublisherLoop, PublisherTimeout, SendPointCloud
    <2>15. CASE UNCHANGED vars
      BY <2>12, <2>15 DEF vars
    <2> QED BY <2>4, <2>5, <2>6, <2>7, <2>8, <2>9, <2>10, <2>11, <2>13, <2>14, <2>15,
               NextCases
  <1> QED BY <1>1, <1>2, TypingHolds, CloudsAreExclusive, FilledHolds,
             PTL DEF SafeSpec, Channel!SafeSpec

-----------------------------------------------------------------------------
(* RsNode.  How far the life of each source is when main() is where it is:   *)
(* the sources below at have had what the loop does, the others have not.    *)
StartedSource(s) == drivers[s] # "none" /\ publishers[s] = "running" /\ s \in joinables
StoppedSource(s) == drivers[s] = "ready" /\ publishers[s] = "ended" /\ s \notin joinables
FutureSource(s) == drivers[s] = "none" /\ publishers[s] = "none" /\ s \notin joinables

StartingPhase ==
    /\ main = "init" => \A s \in Source : IF s < at THEN StartedSource(s)
                                                         ELSE FutureSource(s)
    /\ main \in {"start", "running", "waiting"} =>
          \A s \in Source : StartedSource(s)
    /\ main \in {"running", "waiting"} => at = 1

StoppingPhase ==
    /\ main = "stop" => \A s \in Source : IF s < at THEN StoppedSource(s)
                                                         ELSE StartedSource(s)
    /\ main = "join" =>
          /\ at \in Source /\ at \in joinables
          /\ drivers[at] = "ready" /\ publishers[at] \in {"ending", "ended"}
          /\ \A s \in Source \ {at} : IF s < at THEN StoppedSource(s)
                                                     ELSE StartedSource(s)

DestroyingPhase ==
    /\ main \in {"stop", "join", "returned", "terminated"}
    /\ at = 1
    /\ \A s \in Source : StoppedSource(s)
    /\ main = "returned" => NSources = 0

Phases ==
    /\ destroying => DestroyingPhase
    /\ ~destroying => /\ main \notin {"returned", "terminated"}
                      /\ StartingPhase /\ StoppingPhase

(* The parts of NodeTypeOK that the phases do not imply. *)
NodeTypes ==
    /\ main \in {"init", "start", "running", "waiting", "stop", "join",
                 "exited", "returned", "terminated"}
    /\ at \in 1..(NSources + 1)
    /\ destroying \in BOOLEAN
    /\ drivers \in [Source -> {"none", "ready", "running"}]
    /\ publishers \in [Source -> {"none", "running", "ending", "ended"}]
    /\ joinables \subseteq Source

LEMMA NodeStarts ==
    ASSUME NodeInit
    PROVE  NodeTypes /\ Phases
  <1>1. /\ main = "init" /\ at = 1 /\ destroying = FALSE /\ joinables = {}
        /\ drivers = [s \in Source |-> "none"]
        /\ publishers = [s \in Source |-> "none"]
    BY DEF NodeInit
  <1>2. at \in 1..(NSources + 1)
    BY <1>1, NodeConstants
  <1>3. NodeTypes
    BY <1>1, <1>2 DEF NodeTypes
  <1>4. \A s \in Source : ~(s < at) /\ FutureSource(s)
    BY <1>1, NodeConstants DEF Source, FutureSource
  <1> QED BY <1>1, <1>3, <1>4 DEF Phases, StartingPhase, StoppingPhase

LEMMA NodeTypesKept ==
    ASSUME NodeTypes, [NodeNext]_nodeVars
    PROVE  NodeTypes'
  <1> USE NodeConstants DEF NodeTypes
  <1>0. /\ NSources \in Nat /\ at \in Nat
        /\ at <= NSources => at \in Source /\ at + 1 \in 1..(NSources + 1)
        /\ at \in Source => at + 1 \in 1..(NSources + 1)
        /\ 1 \in 1..(NSources + 1)
    BY DEF Source
  <1>1. CASE InitAt
    BY <1>0, <1>1 DEF InitAt
  <1>2. CASE InitDone
    BY <1>0, <1>2 DEF InitDone, sourceVars
  <1>3. CASE StartAt
    BY <1>0, <1>3 DEF StartAt
  <1>4. CASE StartDone
    BY <1>0, <1>4 DEF StartDone, sourceVars
  <1>5. CASE WaitForSignal
    BY <1>5 DEF WaitForSignal, sourceVars
  <1>6. CASE StopSource
    <2>1. /\ at \in Source
          /\ drivers' = [drivers EXCEPT ![at] = "ready"]
          /\ publishers' = [publishers EXCEPT ![at] = IF @ = "running" THEN "ending" ELSE @]
          /\ main' = "join" /\ UNCHANGED <<at, destroying, joinables>>
      BY <1>0, <1>6 DEF StopSource, StopsAt
    <2> QED BY <2>1
  <1>7. CASE JoinAt
    BY <1>0, <1>7 DEF JoinAt
  <1>8. CASE StopDone
    BY <1>0, <1>8 DEF StopDone, sourceVars
  <1>9. CASE SigHandler
    BY <1>9 DEF SigHandler, Notified, sourceVars
  <1>10. CASE SpuriousWakeup
    BY <1>10 DEF SpuriousWakeup, sourceVars
  <1>11. ASSUME NEW s \in Source, PublisherEnds(s) PROVE NodeTypes'
    BY <1>11 DEF PublisherEnds
  <1>12. CASE UNCHANGED nodeVars
    BY <1>12 DEF nodeVars, sourceVars
  <1> QED BY <1>1, <1>2, <1>3, <1>4, <1>5, <1>6, <1>7, <1>8, <1>9, <1>10, <1>11, <1>12
          DEF NodeNext, MainStep

LEMMA PhasesKept ==
    ASSUME NodeTypes, Phases, [NodeNext]_nodeVars
    PROVE  Phases'
  <1>0. /\ NSources \in Nat /\ at \in Nat
        /\ \A s \in Source : s \in Nat /\ 1 <= s /\ s <= NSources
        /\ at <= NSources => at \in Source
        /\ destroying \in BOOLEAN
    BY NodeConstants DEF Source, NodeTypes
  <1> USE DEF StartedSource, StoppedSource, FutureSource
  <1>1. CASE InitAt
    <2>1. /\ main = "init" /\ at \in Source /\ ~destroying /\ ~destroying'
          /\ publishers' = [publishers EXCEPT ![at] = "running"]
          /\ joinables' = joinables \union {at}
      BY <1>0, <1>1 DEF InitAt, Phases, DestroyingPhase
    <2>2. \A s \in Source : IF s < at THEN StartedSource(s) ELSE FutureSource(s)
      BY <2>1 DEF Phases, StartingPhase
    <2>3. CASE main' = "exited"
      BY <2>1, <2>3 DEF Phases, StartingPhase, StoppingPhase
    <2>4. CASE drivers' = [drivers EXCEPT ![at] = "ready"] /\ at' = at + 1 /\ main' = main
      <3>1. \A s \in Source : IF s < at + 1 THEN StartedSource(s)' ELSE FutureSource(s)'
        BY <1>0, <2>1, <2>2, <2>4 DEF NodeTypes
      <3> QED BY <2>1, <2>4, <3>1 DEF Phases, StartingPhase, StoppingPhase
    <2> QED BY <1>1, <2>3, <2>4 DEF InitAt
  <1>2. CASE InitDone
    <2>1. /\ main = "init" /\ at > NSources /\ main' = "start" /\ ~destroying /\ ~destroying'
          /\ UNCHANGED <<drivers, publishers, joinables>>
      BY <1>2 DEF InitDone, sourceVars, Phases, DestroyingPhase
    <2>2. \A s \in Source : StartedSource(s)
      BY <1>0, <2>1 DEF Phases, StartingPhase
    <2> QED BY <2>1, <2>2 DEF Phases, StartingPhase, StoppingPhase
  <1>3. CASE StartAt
    <2>1. /\ main = "start" /\ main' = "start" /\ ~destroying /\ ~destroying'
          /\ drivers' = [drivers EXCEPT ![at] = "running"]
          /\ UNCHANGED <<publishers, joinables>>
      BY <1>3 DEF StartAt, Phases, DestroyingPhase
    <2>2. \A s \in Source : StartedSource(s)'
      BY <2>1 DEF Phases, StartingPhase, NodeTypes
    <2> QED BY <2>1, <2>2 DEF Phases, StartingPhase, StoppingPhase
  <1>4. CASE StartDone
    <2>1. /\ main = "start" /\ main' = "running" /\ at' = 1 /\ ~destroying /\ ~destroying'
          /\ UNCHANGED <<drivers, publishers, joinables>>
      BY <1>4 DEF StartDone, sourceVars, Phases, DestroyingPhase
    <2> QED BY <2>1 DEF Phases, StartingPhase, StoppingPhase
  <1>5. CASE WaitForSignal
    <2>1. /\ main = "running" /\ main' = "waiting" /\ at' = at /\ ~destroying /\ ~destroying'
          /\ UNCHANGED <<drivers, publishers, joinables>>
      BY <1>5 DEF WaitForSignal, sourceVars, Phases, DestroyingPhase
    <2> QED BY <2>1 DEF Phases, StartingPhase, StoppingPhase
  <1>6. CASE StopSource
    <2>1. /\ main = "stop" /\ main' = "join" /\ at \in Source
          /\ drivers' = [drivers EXCEPT ![at] = "ready"]
          /\ publishers' = [publishers EXCEPT ![at] = IF @ = "running" THEN "ending" ELSE @]
          /\ UNCHANGED <<at, destroying, joinables>>
      BY <1>0, <1>6 DEF StopSource, StopsAt
    <2>2. /\ drivers'[at] = "ready"
          /\ publishers'[at] = IF publishers[at] = "running" THEN "ending" ELSE publishers[at]
          /\ \A s \in Source \ {at} : drivers'[s] = drivers[s]
                                           /\ publishers'[s] = publishers[s]
      BY <2>1 DEF NodeTypes
    <2>3. CASE destroying
      BY <2>1, <2>2, <2>3 DEF Phases, DestroyingPhase
    <2>4. CASE ~destroying
      <3>1. \A s \in Source : IF s < at THEN StoppedSource(s) ELSE StartedSource(s)
        BY <2>1, <2>4 DEF Phases, StoppingPhase
      <3>2. at \in joinables /\ publishers[at] = "running"
        BY <1>0, <2>1, <3>1
      <3>3. \A s \in Source \ {at} : IF s < at THEN StoppedSource(s)' ELSE StartedSource(s)'
        BY <2>1, <2>2, <3>1
      <3> QED BY <2>1, <2>2, <2>4, <3>2, <3>3 DEF Phases, StartingPhase, StoppingPhase
    <2> QED BY <1>0, <2>3, <2>4
  <1>7. CASE JoinAt
    <2>1. /\ main = "join" /\ joinables' = joinables \ {at}
          /\ UNCHANGED <<destroying, drivers, publishers>>
      BY <1>7 DEF JoinAt
    <2>2. CASE destroying
      <3>1. at = 1 /\ \A s \in Source : StoppedSource(s)
        BY <2>2 DEF Phases, DestroyingPhase
      <3>2. at \notin joinables
        BY <3>1 DEF NodeTypes
      <3>3. main' = "terminated" /\ at' = at
        BY <1>7, <3>2 DEF JoinAt
      <3> QED BY <2>1, <2>2, <3>1, <3>3 DEF Phases, DestroyingPhase
    <2>3. CASE ~destroying
      <3>1. /\ at \in Source /\ at \in joinables /\ drivers[at] = "ready"
            /\ \A s \in Source \ {at} : IF s < at THEN StoppedSource(s)
                                                       ELSE StartedSource(s)
        BY <2>1, <2>3 DEF Phases, StoppingPhase
      <3>2. publishers[at] = "ended" /\ main' = "stop" /\ at' = at + 1
        BY <1>7, <3>1 DEF JoinAt, EndedAt
      <3>3. \A s \in Source : IF s < at + 1 THEN StoppedSource(s)' ELSE StartedSource(s)'
        BY <1>0, <2>1, <3>1, <3>2
      <3> QED BY <2>1, <2>3, <3>2, <3>3 DEF Phases, StartingPhase, StoppingPhase
    <2> QED BY <1>0, <2>2, <2>3
  <1>8. CASE StopDone
    <2>1. /\ main = "stop" /\ at > NSources /\ UNCHANGED <<drivers, publishers, joinables>>
      BY <1>8 DEF StopDone, sourceVars
    <2>2. CASE destroying
      <3>1. main' = "returned" /\ at' = at /\ destroying' = destroying
        BY <1>8, <2>2 DEF StopDone
      <3>2. NSources = 0
        BY <1>0, <2>1, <2>2 DEF Phases, DestroyingPhase
      <3> QED BY <2>1, <2>2, <3>1, <3>2 DEF Phases, DestroyingPhase
    <2>3. CASE ~destroying
      <3>1. main' = "stop" /\ at' = 1 /\ destroying'
        BY <1>8, <2>1, <2>3 DEF StopDone
      <3>2. \A s \in Source : StoppedSource(s)
        BY <1>0, <2>1, <2>3 DEF Phases, StoppingPhase
      <3> QED BY <2>1, <3>1, <3>2 DEF Phases, DestroyingPhase
    <2> QED BY <1>0, <2>2, <2>3
  <1>9. ASSUME \/ main' = main
               \/ main = "waiting" /\ main' = "stop",
               UNCHANGED <<at, destroying, drivers, publishers, joinables>>
        PROVE  Phases'
    <2>1. CASE main' = main
      BY <1>9, <2>1 DEF Phases, DestroyingPhase, StartingPhase, StoppingPhase
    <2>2. CASE main = "waiting" /\ main' = "stop"
      <3>1. ~destroying /\ at = 1 /\ \A s \in Source : StartedSource(s)
        BY <2>2 DEF Phases, DestroyingPhase, StartingPhase
      <3>2. \A s \in Source : ~(s < at)
        BY <1>0, <3>1
      <3> QED BY <1>9, <2>2, <3>1, <3>2 DEF Phases, StartingPhase, StoppingPhase
    <2> QED BY <1>9, <2>1, <2>2
  <1>10. CASE SigHandler \/ SpuriousWakeup \/ UNCHANGED nodeVars
    BY <1>9, <1>10 DEF SigHandler, Notified, SpuriousWakeup,
                       nodeVars, sourceVars
  <1>11. ASSUME NEW p \in Source, PublisherEnds(p) PROVE Phases'
    <2>1. /\ publishers[p] = "ending" /\ publishers' = [publishers EXCEPT ![p] = "ended"]
          /\ UNCHANGED <<main, at, destroying, drivers, joinables>>
          /\ main \notin {"exited", "returned", "terminated"}
      BY <1>11 DEF PublisherEnds, NodeAlive
    <2>2. ~StoppedSource(p) /\ ~StartedSource(p) /\ ~FutureSource(p)
      BY <2>1
    <2>3. ~destroying
      BY <2>2, <1>11 DEF Phases, DestroyingPhase
    <2>4. main = "join" /\ p = at
      BY <1>11, <2>1, <2>2, <2>3 DEF Phases, StartingPhase, StoppingPhase, NodeTypes
    <2>5. publishers'[at] = "ended" /\ \A s \in Source \ {at} : publishers'[s] = publishers[s]
      BY <1>11, <2>1, <2>4 DEF NodeTypes
    <2> QED BY <2>1, <2>3, <2>4, <2>5 DEF Phases, StartingPhase, StoppingPhase
  <1> QED BY <1>1, <1>2, <1>3, <1>4, <1>5, <1>6, <1>7, <1>8, <1>10, <1>11
          DEF NodeNext, MainStep

LEMMA PhasesHold == NodeSafeSpec => [](NodeTypes /\ Phases)
  <1>1. NodeInit => NodeTypes /\ Phases
    BY NodeStarts
  <1>2. NodeTypes /\ Phases /\ [NodeNext]_nodeVars => (NodeTypes /\ Phases)'
    BY NodeTypesKept, PhasesKept
  <1> QED BY <1>1, <1>2, PTL DEF NodeSafeSpec

(* When ~NodeManager() destroys the first source, none has a thread left     *)
(* that receives, decodes or publishes, however many sources there are and   *)
(* whenever the signal came.                                                 *)
THEOREM StopsBeforeDestroying == NodeSafeSpec => []StoppedBeforeDestroyed
  <1>1. Phases => StoppedBeforeDestroyed
    BY DEF Phases, DestroyingPhase, StoppedSource, StoppedBeforeDestroyed
  <1> QED BY <1>1, PhasesHold, PTL

(* A node with a source does not return from main(): the destructor of its   *)
(* first source stops it a second time and joins a thread that was joined.   *)
THEOREM NeverReturns == NodeSafeSpec => [](main = "returned" => NSources = 0)
  <1>1. NodeTypes /\ Phases => (main = "returned" => NSources = 0)
    BY DEF Phases, DestroyingPhase, NodeTypes
  <1> QED BY <1>1, PhasesHold, PTL

-----------------------------------------------------------------------------
(* RslidarSdk. *)

(* Every step of the process is one of its parts, or of both at once. *)
LEMMA SdkStepsOfParts == [SdkNext]_sdkVars => [Next]_vars /\ [NodeNext]_nodeVars
  <1> SUFFICES ASSUME [SdkNext]_sdkVars
               PROVE  [Next]_vars /\ [NodeNext]_nodeVars
    OBVIOUS
  <1>1. CASE InitFirst
    BY <1>1 DEF InitFirst, Next, Own, NodeNext, MainStep
  <1>2. CASE StartFirst
    BY <1>2 DEF StartFirst, Next, Own, NodeNext, MainStep
  <1>3. CASE CallStopFirst
    BY <1>3 DEF CallStopFirst, Next, Own, FinishStop
  <1>4. CASE StopFirst
    BY <1>4 DEF StopFirst, Next, FinishStop, NodeNext, MainStep
  <1>5. CASE JoinFirst
    BY <1>5 DEF JoinFirst, Next, FinishStop, NodeNext, MainStep
  <1>6. CASE MainElsewhere
    BY <1>6 DEF MainElsewhere, NodeNext, MainStep
  <1>7. CASE RegisterFirst
    BY <1>7 DEF RegisterFirst, Next, Own
  <1>8. CASE PublishFirst
    <2>1. Next
      BY <1>8 DEF PublishFirst, Next
    <2>2. CASE publisher' = "none"
      <3>1. PublisherEnds(1)
        BY <1>8, <2>2 DEF PublishFirst
      <3>2. 1 \in Source
        BY NodeConstants, FirstAssumption DEF Source
      <3> QED BY <2>1, <3>1, <3>2 DEF NodeNext
    <2>3. CASE publisher' # "none"
      BY <1>8, <2>1, <2>3 DEF PublishFirst
    <2> QED BY <2>2, <2>3
  <1>9. CASE DecodeFirst
    BY <1>9 DEF DecodeFirst, Next
  <1>10. CASE (SigHandler \/ SpuriousWakeup) /\ UNCHANGED vars
    BY <1>10 DEF NodeNext
  <1>11. CASE \E s \in Source : PublisherElsewhereEnds(s)
    BY <1>11 DEF PublisherElsewhereEnds, NodeNext
  <1>12. CASE UNCHANGED sdkVars
    BY <1>12 DEF sdkVars
  <1> QED BY <1>1, <1>2, <1>3, <1>4, <1>5, <1>6, <1>7, <1>8, <1>9, <1>10, <1>11, <1>12
          DEF SdkNext, MainThread

LEMMA SdkIsItsParts == SdkSafeSpec => SafeSpec /\ NodeSafeSpec
  <1>1. SdkInit => Init /\ NodeInit
    BY DEF SdkInit
  <1>2. [SdkNext]_sdkVars => [Next]_vars /\ [NodeNext]_nodeVars
    BY SdkStepsOfParts
  <1> QED BY <1>1, <1>2, PTL DEF SdkSafeSpec, SafeSpec, NodeSafeSpec

(* The node has the source's publisher ending from to_exit_process_ on, and  *)
(* ended once it is.                                                         *)
Seen ==
    /\ publishers[1] \in {"ending", "ended"} =>
          owner \in {"joinPublisher", "raiseExit", "stopped", "terminated"}
    /\ publishers[1] = "ended" => publisher = "none"

LEMMA SeenKept ==
    ASSUME Typing, NodeTypes, Seen, [SdkNext]_sdkVars
    PROVE  Seen'
  <1>0. 1 \in Source
    BY NodeConstants, FirstAssumption DEF Source
  <1>1. CASE InitFirst
    BY <1>0, <1>1 DEF InitFirst, AtFirst, InitAt, NodeTypes, Seen
  <1>2. CASE StartFirst
    BY <1>2 DEF StartFirst, StartAt, StartSource, Seen
  <1>3. CASE CallStopFirst
    BY <1>3 DEF CallStopFirst, Stop, StopDriver, nodeVars, sourceVars, publisherVars,
                ownerVars, Typing, TypeOK, Seen
  <1>4. CASE StopFirst
    BY <1>0, <1>4 DEF StopFirst, AtFirst, StopSource, RaiseExit, publisherVars, NodeTypes, Seen
  <1>5. CASE JoinFirst
    BY <1>5 DEF JoinFirst, JoinAt, JoinPublisher, publisherVars, Seen
  <1>6. CASE MainElsewhere
    BY <1>0, <1>6 DEF MainElsewhere, AtFirst, InitDone, StartDone, WaitForSignal, StopDone,
                InitAt, StartAt, StopSource, JoinAt, sourceVars, vars, ownerVars,
                publisherVars, NodeTypes, Seen
  <1>7. CASE RegisterFirst
    BY <1>7 DEF RegisterFirst, RegPointCloudCallback, nodeVars, sourceVars, publisherVars, Seen
  <1>8. CASE PublishFirst
    BY <1>0, <1>8 DEF PublishFirst, Publish, PublisherEnds, PublisherLoop, PublisherTimeout,
                PublisherTake, SendPointCloud, PublisherRecycle, nodeVars, sourceVars,
                ownerVars, NodeTypes, Seen
  <1>9. CASE DecodeFirst
    BY <1>9 DEF DecodeFirst, Decode, AddPoints, PutPointCloud, NextCloud, HandlerEnds,
                nodeVars, sourceVars, ownerVars, publisherVars, Seen
  <1>10. CASE (SigHandler \/ SpuriousWakeup) /\ UNCHANGED vars
    BY <1>10 DEF SigHandler, SpuriousWakeup, sourceVars, vars, ownerVars, publisherVars, Seen
  <1>11. CASE \E s \in Source : PublisherElsewhereEnds(s)
    BY <1>0, <1>11 DEF PublisherElsewhereEnds, PublisherEnds, vars, ownerVars, publisherVars,
                NodeTypes, Seen
  <1>12. CASE UNCHANGED sdkVars
    BY <1>12 DEF sdkVars, nodeVars, sourceVars, vars, ownerVars, publisherVars, Seen
  <1> QED BY <1>1, <1>2, <1>3, <1>4, <1>5, <1>6, <1>7, <1>8, <1>9, <1>10, <1>11, <1>12
          DEF SdkNext, MainThread

(* What NodeManager joined and counts as stopped has no thread left: neither *)
(* the driver's handler nor the publisher, for any number of sources,        *)
(* signals, clouds and frames.                                               *)
THEOREM SdkStopsItsThreads == SdkSafeSpec => []StoppedAsSeen
  <1>1. SdkInit => Seen
    BY NodeConstants, FirstAssumption DEF SdkInit, NodeInit, Init, Source, Seen
  <1>2. Typing /\ NodeTypes /\ Seen /\ [SdkNext]_sdkVars => Seen'
    BY SeenKept
  <1>3. Typing /\ Seen => StoppedAsSeen
    BY DEF Typing, TypeOK, Seen, StoppedAsSeen
  <1>4. SafeSpec => []Typing
    BY TypingHolds
  <1>5. NodeSafeSpec => []NodeTypes
    BY PhasesHold, PTL
  <1> QED BY <1>1, <1>2, <1>3, <1>4, <1>5, SdkIsItsParts, PTL DEF SdkSafeSpec

(* So in the whole process too clouds are in one place, their number follows *)
(* the backlog, and all sources are stopped before the first is destroyed.   *)
THEOREM SdkKeepsPromises ==
    SdkSafeSpec => /\ [](CloudsExclusive /\ AllocationFollowsBacklog /\ StoppedBeforeDestroyed)
                   /\ QuietAfterStop
  BY SdkIsItsParts, CloudsAreExclusive, AllocationIsBounded, StopsBeforeDestroying,
     SourceIsQuietAfterStop, PTL
=============================================================================
