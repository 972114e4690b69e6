---------------------------- MODULE FrameChannel ----------------------------
(***************************************************************************)
(* What a source promises its destinations: the frames the decoder makes   *)
(* are published one at a time, each once, unchanged, in the order they    *)
(* were made; none is lost, except that those still waiting when the       *)
(* source is closed may never be published.                                *)
(***************************************************************************)
EXTENDS Naturals, Sequences

VARIABLES pending,      \* frames made and not yet taken, oldest first
          publishing,   \* the frame being published, 0: none
          made,         \* how many frames were made: the last one's number
          closed

vars == <<pending, publishing, made, closed>>

Init == pending = <<>> /\ publishing = 0 /\ made = 0 /\ closed = FALSE

Make ==
    /\ made' = made + 1
    /\ pending' = Append(pending, made + 1)
    /\ UNCHANGED <<publishing, closed>>

Take ==
    /\ pending # <<>> /\ publishing = 0
    /\ publishing' = Head(pending)
    /\ pending' = Tail(pending)
    /\ UNCHANGED <<made, closed>>

Publish ==
    /\ publishing # 0
    /\ publishing' = 0
    /\ UNCHANGED <<pending, made, closed>>

Close == closed' = TRUE /\ UNCHANGED <<pending, publishing, made>>

Next == Make \/ Take \/ Publish \/ Close
SafeSpec == Init /\ [][Next]_vars
Spec == SafeSpec /\ WF_vars(~closed /\ Take) /\ WF_vars(~closed /\ Publish)
=============================================================================
