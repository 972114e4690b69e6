---------------------------- MODULE BlockingFifo ----------------------------
(***************************************************************************)
(* What the users of rs_driver's SyncQueue (utility/sync_queue.hpp) rely   *)
(* on: one atomic first-in first-out queue.  Values are numbered in the    *)
(* order they are pushed.  A value leaves the queue because the consumer's *)
(* popWait returned it, because another thread popped it, or because the   *)
(* queue was cleared; and a consumer that keeps calling popWait does not   *)
(* sleep for ever over a queue that holds something.                       *)
(***************************************************************************)
EXTENDS Naturals, Sequences

CONSTANT MaxPush        \* bound: how many values are ever pushed

VARIABLES queue,        \* the values held, oldest first
          pushed,       \* how many values have been pushed: names the next one
          delivered     \* the last value the consumer received (0 : none yet)

vars == <<queue, pushed, delivered>>

Init == queue = <<>> /\ pushed = 0 /\ delivered = 0

Push ==
    /\ pushed < MaxPush
    /\ pushed' = pushed + 1
    /\ queue' = Append(queue, pushed + 1)
    /\ UNCHANGED delivered

Deliver ==
    /\ queue # <<>>
    /\ delivered' = Head(queue)
    /\ queue' = Tail(queue)
    /\ UNCHANGED pushed

Take ==
    /\ queue # <<>>
    /\ queue' = Tail(queue)
    /\ UNCHANGED <<pushed, delivered>>

Clear ==
    /\ queue' = <<>>
    /\ UNCHANGED <<pushed, delivered>>

Next == Push \/ Deliver \/ Take \/ Clear

SafeSpec == Init /\ [][Next]_vars
Spec == SafeSpec /\ WF_vars(Deliver)
=============================================================================
