------------------------------ MODULE SyncQueue ------------------------------
(***************************************************************************)
(* SyncQueue<T> (rs_driver/utility/sync_queue.hpp): a std::queue under a   *)
(* mutex, with a condition variable on which one consumer sleeps.          *)
(*                                                                         *)
(* Each critical section is one step.  What is not inside a critical       *)
(* section is a step of its own: push() unlocks first and calls            *)
(* notify_one() afterwards, and only when the queue was empty before it    *)
(* added its value.  wait_for() releases the lock while the consumer       *)
(* sleeps; it ends by a notification, by its timeout, or spuriously, and   *)
(* tests the queue again under the lock.                                   *)
(*                                                                         *)
(* polling is the ENABLE_WAIT_IF_QUEUE_EMPTY build, where push() notifies  *)
(* nobody and popWait() sleeps for a fixed time instead.                   *)
(***************************************************************************)
EXTENDS Naturals, Sequences, FiniteSets

CONSTANTS Producer,     \* the threads that push, pop and clear
          MaxPush       \* bound: how many values are ever pushed

ASSUME ConstantsAssumption == MaxPush \in Nat

VARIABLES polling,      \* which build ?  It never changes.
          queue,        \* queue_: the values held, oldest first
          notifying,    \* producers between push's unlock and its notify_one
          consumer,     \* where the consumer is in popWait
          pushed,       \* how many values have been pushed: names the next one
          delivered     \* the last value popWait returned (0 : none yet)

vars == <<polling, queue, notifying, consumer, pushed, delivered>>

ConsumerState == {"outside",    \* not in popWait, about to call it
                  "waiting",    \* blocked on the condition variable
                  "woken",      \* notified or woken spuriously, not yet locked
                  "expired",    \* the wait timed out, not yet locked
                  "sleeping"}   \* in sleep_for (polling only)

Init ==
    /\ polling \in BOOLEAN
    /\ queue = <<>>
    /\ notifying = {}
    /\ consumer = "outside"
    /\ pushed = 0
    /\ delivered = 0

-----------------------------------------------------------------------------
(* push() *)

(* mutation: the test comes after the value was added *)
OwesNotify_AfterAppend == Len(queue) + 1 = 0 /\ ~polling
OwesNotify == queue = <<>> /\ ~polling

PushLocked(p) ==
    /\ p \notin notifying
    /\ pushed < MaxPush
    /\ pushed' = pushed + 1
    /\ queue' = Append(queue, pushed + 1)
    /\ notifying' = IF OwesNotify THEN notifying \union {p} ELSE notifying
    /\ UNCHANGED <<polling, consumer, delivered>>

NotifyOne(p) ==
    /\ p \in notifying
    /\ notifying' = notifying \ {p}
    /\ consumer' = IF consumer = "waiting" THEN "woken" ELSE consumer
    /\ UNCHANGED <<polling, queue, pushed, delivered>>

(* pop() on a queue that holds something; on an empty one it changes nothing *)
Pop(p) ==
    /\ p \notin notifying
    /\ queue # <<>>
    /\ queue' = Tail(queue)
    /\ UNCHANGED <<polling, notifying, consumer, pushed, delivered>>

Clear(p) ==
    /\ p \notin notifying
    /\ queue' = <<>>
    /\ UNCHANGED <<polling, notifying, consumer, pushed, delivered>>

-----------------------------------------------------------------------------
(* popWait() *)

TakeFront ==
    /\ queue # <<>>
    /\ delivered' = Head(queue)
    /\ queue' = Tail(queue)
    /\ consumer' = "outside"
    /\ UNCHANGED <<polling, notifying, pushed>>

MoveConsumer(to) ==
    /\ consumer' = to
    /\ UNCHANGED <<polling, queue, notifying, pushed, delivered>>

BlockedState == IF polling THEN "sleeping" ELSE "waiting"

PopWaitCall ==
    /\ consumer = "outside"
    /\ \/ TakeFront
       \/ queue = <<>> /\ MoveConsumer(BlockedState)

(* mutation: wait_for() without its predicate returns after any wakeup, and  *)
(* the value is then taken from a queue that may be empty                    *)
PopWaitResume_NoRetest ==
    /\ consumer \in {"woken", "expired", "sleeping"}
    /\ MoveConsumer("outside")

PopWaitResume ==
    \/ consumer \in {"woken", "expired"} /\ TakeFront
    \/ consumer = "woken" /\ queue = <<>> /\ MoveConsumer("waiting")
    \/ consumer = "expired" /\ queue = <<>> /\ MoveConsumer("outside")
    \/ consumer = "sleeping" /\ MoveConsumer("outside")

SpuriousWakeup == consumer = "waiting" /\ MoveConsumer("woken")

Expire == consumer = "waiting" /\ MoveConsumer("expired")

-----------------------------------------------------------------------------
ProducerStep(p) == PushLocked(p) \/ NotifyOne(p) \/ Pop(p) \/ Clear(p)
ConsumerStep == PopWaitCall \/ PopWaitResume

Next ==
    \/ \E p \in Producer : ProducerStep(p)
    \/ ConsumerStep
    \/ SpuriousWakeup
    \/ Expire

SafeSpec == Init /\ [][Next]_vars

(* A thread inside push() or popWait() is scheduled; nobody has to push, and *)
(* neither a timeout nor a spurious wakeup is ever promised.                 *)
Spec ==
    /\ SafeSpec
    /\ \A p \in Producer : WF_vars(NotifyOne(p))
    /\ WF_vars(ConsumerStep)

-----------------------------------------------------------------------------
(* Types of the variables, the range of the values the queue holds, and the  *)
(* states of each of the two builds.                                         *)
TypeOK ==
    /\ queue \in Seq(1..MaxPush)
    /\ polling \in BOOLEAN
    /\ notifying \in SUBSET Producer
    /\ consumer \in ConsumerState
    /\ IF polling THEN notifying = {} /\ consumer \in {"outside", "sleeping"}
                  ELSE consumer # "sleeping"
    /\ pushed \in 0..MaxPush
    /\ delivered \in 0..MaxPush

(* push() notifies only when it found the queue empty, and after unlocking.  *)
(* That is enough for one consumer: whenever it sleeps over a queue that     *)
(* holds something, some push() still owes it a notify_one().                *)
NoLostWakeup ==
    consumer = "waiting" /\ queue # <<>> => notifying # {}

(* The queue implements one atomic queue whose consumer does not starve.     *)
Abstract == INSTANCE BlockingFifo
ImplementsBlockingFifo == Abstract!Spec
ImplementsBlockingFifoSafely == Abstract!SafeSpec
=============================================================================
