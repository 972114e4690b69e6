-------------------------- MODULE SyncQueue_proofs --------------------------
(***************************************************************************)
(* The safety of SyncQueue for any set of producers, any number of pushes  *)
(* and both builds: types, no lost wakeup, order, and that every step of   *)
(* the queue is a step of BlockingFifo or leaves its state alone.          *)
(***************************************************************************)
EXTENDS SyncQueue, SequenceTheorems, TLAPS

(* The actions of Next, one to a case of the proofs below. *)
LEMMA NextCases ==
    ASSUME Next
    PROVE  \/ \E p \in Producer : PushLocked(p)
           \/ \E p \in Producer : NotifyOne(p)
           \/ \E p \in Producer : Pop(p)
           \/ \E p \in Producer : Clear(p)
           \/ PopWaitCall
           \/ PopWaitResume
           \/ SpuriousWakeup
           \/ Expire
  BY DEF Next, ProducerStep, ConsumerStep

(* What adding a value, or removing the front one, does to a queue. *)
LEMMA AppendValue ==
    ASSUME NEW n \in Nat, NEW q \in Seq(1..n), NEW v \in 1..n
    PROVE  /\ Append(q, v) \in Seq(1..n)
           /\ Len(Append(q, v)) = Len(q) + 1
           /\ \A i \in 1..Len(q) : Append(q, v)[i] = q[i]
           /\ Append(q, v)[Len(q) + 1] = v
           /\ Append(q, v) # <<>>
  OBVIOUS

LEMMA TailOfQueue ==
    ASSUME NEW n \in Nat, NEW q \in Seq(1..n), q # <<>>
    PROVE  /\ Tail(q) \in Seq(1..n)
           /\ Len(Tail(q)) = Len(q) - 1
           /\ Len(q) \in Nat \ {0}
           /\ \A i \in 1..(Len(q) - 1) : Tail(q)[i] = q[i + 1]
           /\ Head(q) = q[1]
           /\ Head(q) \in 1..n
  OBVIOUS

-----------------------------------------------------------------------------
(* Every variable keeps its type, and each build its own states.             *)
THEOREM TypeCorrect == SafeSpec => []TypeOK
  <1>1. Init => TypeOK
    BY ConstantsAssumption DEF Init, TypeOK, ConsumerState
  <1>2. TypeOK /\ [Next]_vars => TypeOK'
    <2> SUFFICES ASSUME TypeOK, [Next]_vars PROVE TypeOK'
      OBVIOUS
    <2> USE ConstantsAssumption DEF TypeOK, ConsumerState
    <2>1. ASSUME NEW p \in Producer, PushLocked(p) PROVE TypeOK'
      <3>1. pushed + 1 \in 1..MaxPush
        BY <2>1 DEF PushLocked
      <3> QED BY <2>1, <3>1, AppendValue DEF PushLocked, OwesNotify
    <2>2. ASSUME NEW p \in Producer, NotifyOne(p) PROVE TypeOK'
      BY <2>2 DEF NotifyOne
    <2>3. ASSUME NEW p \in Producer, Pop(p) PROVE TypeOK'
      BY <2>3, TailOfQueue DEF Pop
    <2>4. ASSUME NEW p \in Producer, Clear(p) PROVE TypeOK'
      BY <2>4 DEF Clear
    <2>t. ASSUME TakeFront, consumer # "waiting" PROVE TypeOK'
      <3>1. /\ queue' \in Seq(1..MaxPush)
            /\ delivered' \in 0..MaxPush
        BY <2>t, TailOfQueue DEF TakeFront
      <3> QED BY <2>t, <3>1 DEF TakeFront
    <2>5. ASSUME PopWaitCall PROVE TypeOK'
      <3>1. CASE TakeFront
        BY <3>1, <2>t, <2>5 DEF PopWaitCall
      <3>2. CASE polling /\ MoveConsumer("sleeping")
        BY <3>2 DEF MoveConsumer
      <3>3. CASE ~polling /\ MoveConsumer("waiting")
        BY <3>3 DEF MoveConsumer
      <3> QED BY <2>5, <3>1, <3>2, <3>3 DEF PopWaitCall, BlockedState
    <2>6. ASSUME PopWaitResume PROVE TypeOK'
      <3>1. CASE consumer \in {"woken", "expired"} /\ TakeFront
        BY <3>1, <2>t
      <3>2. CASE consumer = "woken" /\ MoveConsumer("waiting")
        BY <3>2 DEF MoveConsumer
      <3>3. CASE MoveConsumer("outside")
        BY <3>3 DEF MoveConsumer
      <3> QED BY <2>6, <3>1, <3>2, <3>3 DEF PopWaitResume
    <2>7. ASSUME SpuriousWakeup \/ Expire PROVE TypeOK'
      BY <2>7 DEF SpuriousWakeup, Expire, MoveConsumer
    <2>8. ASSUME UNCHANGED vars PROVE TypeOK'
      BY <2>8 DEF vars
    <2> QED BY <2>1, <2>2, <2>3, <2>4, <2>5, <2>6, <2>7, <2>8, NextCases
  <1> QED BY <1>1, <1>2, PTL DEF SafeSpec

-----------------------------------------------------------------------------
(* While the consumer sleeps over a queue that holds something, a push()     *)
(* still owes it its notify_one(): unlocking before notifying, and notifying *)
(* only on the change from empty, loses no wakeup.                           *)
THEOREM WakeupsAreNotLost == SafeSpec => []NoLostWakeup
  <1>1. Init => NoLostWakeup
    BY DEF Init, NoLostWakeup
  <1>2. TypeOK /\ NoLostWakeup /\ [Next]_vars => NoLostWakeup'
    <2> SUFFICES ASSUME TypeOK, NoLostWakeup, [Next]_vars PROVE NoLostWakeup'
      OBVIOUS
    <2> USE DEF NoLostWakeup
    <2>1. ASSUME NEW p \in Producer, PushLocked(p) PROVE NoLostWakeup'
      <3>1. consumer = "waiting" => ~polling
        BY DEF TypeOK
      <3> QED BY <2>1, <3>1 DEF PushLocked, OwesNotify
    <2>2. ASSUME NEW p \in Producer, NotifyOne(p) PROVE NoLostWakeup'
      <3>1. consumer' # "waiting"
        BY <2>2 DEF NotifyOne
      <3> QED BY <3>1
    <2>3. ASSUME NEW p \in Producer, Pop(p) \/ Clear(p) PROVE NoLostWakeup'
      BY <2>3 DEF Pop, Clear
    <2>4. ASSUME PopWaitCall PROVE NoLostWakeup'
      BY <2>4 DEF PopWaitCall, TakeFront, MoveConsumer
    <2>5. ASSUME PopWaitResume PROVE NoLostWakeup'
      BY <2>5 DEF PopWaitResume, TakeFront, MoveConsumer
    <2>6. ASSUME SpuriousWakeup \/ Expire PROVE NoLostWakeup'
      BY <2>6 DEF SpuriousWakeup, Expire, MoveConsumer
    <2>7. ASSUME UNCHANGED vars PROVE NoLostWakeup'
      BY <2>7 DEF vars
    <2> QED BY <2>1, <2>2, <2>3, <2>4, <2>5, <2>6, <2>7, NextCases
  <1> QED BY <1>1, <1>2, TypeCorrect, PTL DEF SafeSpec

-----------------------------------------------------------------------------
(* The values a consumer receives come in the order of their push: what is   *)
(* still queued is ordered and newer than what popWait() returned last.      *)
FifoOrder ==
    /\ delivered <= pushed
    /\ \A i, j \in 1..Len(queue) : i < j => queue[i] < queue[j]
    /\ \A i \in 1..Len(queue) : delivered < queue[i] /\ queue[i] <= pushed

(* popWait() returns values in the order of their push, whatever pop() and   *)
(* clear() remove in between.                                                *)
THEOREM ValuesComeInOrder == SafeSpec => []FifoOrder
  <1>1. Init => FifoOrder
    BY DEF Init, FifoOrder
  <1>2. TypeOK /\ FifoOrder /\ [Next]_vars => FifoOrder'
    <2> SUFFICES ASSUME TypeOK, FifoOrder, [Next]_vars PROVE FifoOrder'
      OBVIOUS
    <2> USE ConstantsAssumption
    <2>1. ASSUME NEW p \in Producer, PushLocked(p) PROVE FifoOrder'
      <3>1. /\ pushed + 1 \in 1..MaxPush
            /\ pushed' = pushed + 1
            /\ queue' = Append(queue, pushed + 1)
            /\ delivered' = delivered
        BY <2>1 DEF PushLocked, TypeOK
      <3>2. /\ Len(queue') = Len(queue) + 1
            /\ \A i \in 1..Len(queue) : queue'[i] = queue[i]
            /\ queue'[Len(queue) + 1] = pushed + 1
            /\ Len(queue) \in Nat
        BY <3>1, AppendValue DEF TypeOK
      <3>3. \A i \in 1..Len(queue) : queue[i] \in 1..MaxPush
        BY DEF TypeOK
      <3> QED BY <3>1, <3>2, <3>3 DEF FifoOrder, TypeOK
    <2>2. ASSUME queue # <<>>, queue' = Tail(queue), pushed' = pushed,
                 delivered' \in {delivered, Head(queue)}
          PROVE  FifoOrder'
      <3>1. /\ Len(queue') = Len(queue) - 1
            /\ Len(queue) \in Nat \ {0}
            /\ \A i \in 1..(Len(queue) - 1) : queue'[i] = queue[i + 1]
            /\ Head(queue) = queue[1]
        BY <2>2, TailOfQueue DEF TypeOK
      <3>2. \A i \in 1..Len(queue) : queue[i] \in 1..MaxPush
        BY DEF TypeOK
      <3>3. delivered' <= pushed
        BY <2>2, <3>1 DEF FifoOrder
      <3>4. \A i, j \in 1..Len(queue') : i < j => queue'[i] < queue'[j]
        <4> SUFFICES ASSUME NEW i \in 1..(Len(queue) - 1), NEW j \in 1..(Len(queue) - 1), i < j
                     PROVE  queue[i + 1] < queue[j + 1]
          BY <3>1
        <4>1. i + 1 \in 1..Len(queue) /\ j + 1 \in 1..Len(queue) /\ i + 1 < j + 1
          BY <3>1
        <4> QED BY <4>1 DEF FifoOrder
      <3>5. \A i \in 1..Len(queue') : delivered' < queue'[i] /\ queue'[i] <= pushed
        <4> SUFFICES ASSUME NEW i \in 1..(Len(queue) - 1)
                     PROVE  delivered' < queue[i + 1] /\ queue[i + 1] <= pushed
          BY <3>1
        <4>1. i + 1 \in 1..Len(queue) /\ 1 \in 1..Len(queue) /\ 1 < i + 1
          BY <3>1
        <4>2. queue[1] < queue[i + 1] /\ delivered < queue[i + 1] /\ queue[i + 1] <= pushed
          BY <4>1 DEF FifoOrder
        <4> QED BY <4>2, <3>1, <2>2
      <3> QED BY <3>3, <3>4, <3>5, <2>2 DEF FifoOrder
    <2>3. ASSUME queue' = <<>>, pushed' = pushed, delivered' = delivered
          PROVE  FifoOrder'
      BY <2>3 DEF FifoOrder
    <2>4. ASSUME queue' = queue, pushed' = pushed, delivered' = delivered
          PROVE  FifoOrder'
      BY <2>4 DEF FifoOrder
    <2>5. ASSUME NEW p \in Producer, NotifyOne(p) PROVE FifoOrder'
      BY <2>4, <2>5 DEF NotifyOne
    <2>6. ASSUME NEW p \in Producer, Pop(p) PROVE FifoOrder'
      BY <2>2, <2>6 DEF Pop
    <2>7. ASSUME NEW p \in Producer, Clear(p) PROVE FifoOrder'
      BY <2>3, <2>7 DEF Clear
    <2>8. ASSUME PopWaitCall \/ PopWaitResume PROVE FifoOrder'
      <3>1. CASE TakeFront
        BY <3>1, <2>2 DEF TakeFront
      <3>2. CASE \E s : MoveConsumer(s)
        BY <3>2, <2>4 DEF MoveConsumer
      <3> QED BY <2>8, <3>1, <3>2 DEF PopWaitCall, PopWaitResume
    <2>9. ASSUME SpuriousWakeup \/ Expire PROVE FifoOrder'
      BY <2>4, <2>9 DEF SpuriousWakeup, Expire, MoveConsumer
    <2>10. ASSUME UNCHANGED vars PROVE FifoOrder'
      BY <2>4, <2>10 DEF vars
    <2> QED BY <2>1, <2>5, <2>6, <2>7, <2>8, <2>9, <2>10, NextCases
  <1> QED BY <1>1, <1>2, TypeCorrect, PTL DEF SafeSpec

-----------------------------------------------------------------------------
(* The queue with its lock, condition variable and split push() implements   *)
(* the atomic queue: a critical section maps to one abstract step, the steps *)
(* outside of them to none.                                                  *)
THEOREM ImplementsSafely == SafeSpec => ImplementsBlockingFifoSafely
  <1>1. Init => Abstract!Init
    BY DEF Init, Abstract!Init
  <1>2. [Next]_vars => [Abstract!Next]_Abstract!vars
    <2> SUFFICES ASSUME [Next]_vars PROVE [Abstract!Next]_Abstract!vars
      OBVIOUS
    <2> USE DEF Abstract!Next, Abstract!vars
    <2>1. ASSUME NEW p \in Producer, PushLocked(p) PROVE Abstract!Push
      BY <2>1 DEF PushLocked, Abstract!Push
    <2>2. ASSUME NEW p \in Producer, NotifyOne(p) PROVE UNCHANGED Abstract!vars
      BY <2>2 DEF NotifyOne
    <2>3. ASSUME NEW p \in Producer, Pop(p) PROVE Abstract!Take
      BY <2>3 DEF Pop, Abstract!Take
    <2>4. ASSUME NEW p \in Producer, Clear(p) PROVE Abstract!Clear
      BY <2>4 DEF Clear, Abstract!Clear
    <2>5. ASSUME PopWaitCall \/ PopWaitResume
          PROVE  Abstract!Deliver \/ UNCHANGED Abstract!vars
      BY <2>5 DEF PopWaitCall, PopWaitResume, TakeFront, MoveConsumer, Abstract!Deliver
    <2>6. ASSUME SpuriousWakeup \/ Expire PROVE UNCHANGED Abstract!vars
      BY <2>6 DEF SpuriousWakeup, Expire, MoveConsumer
    <2>7. ASSUME UNCHANGED vars PROVE UNCHANGED Abstract!vars
      BY <2>7 DEF vars
    <2> QED BY <2>1, <2>2, <2>3, <2>4, <2>5, <2>6, <2>7, NextCases
  <1> QED BY <1>1, <1>2, PTL DEF SafeSpec, ImplementsBlockingFifoSafely, Abstract!SafeSpec
=============================================================================
