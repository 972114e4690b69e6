--------------------------- MODULE FrameAssembler ---------------------------
(***************************************************************************)
(* What splitting by packet number promises: it behaves as if every packet *)
(* carried the number of the frame it belongs to.  The cloud is given away *)
(* exactly when the first packet of a newer frame arrives, so that frames  *)
(* are never cut in two and never merged; a packet that comes late goes    *)
(* into the cloud of the moment.  A decoder that knows the length of a     *)
(* frame (splitAtMax) may also give it away at the end of a packet.        *)
(***************************************************************************)
EXTENDS Naturals

CONSTANT Frame          \* frame numbers

VARIABLES splitAtMax,   \* does the decoder know it ?  It never changes.
          newest,       \* the newest frame a packet came of, 0: none
          cloud,        \* the frames with points in the cloud
          given,        \* the cloud given away last
          count         \* how many were given away

vars == <<splitAtMax, newest, cloud, given, count>>

Init ==
    /\ splitAtMax \in BOOLEAN
    /\ newest = 0 /\ cloud = {} /\ given = {} /\ count = 0

(* a packet may hold no valid point, and an empty cloud is not given away *)
Deliver(f) ==
    /\ newest' = IF f > newest THEN f ELSE newest
    /\ \E new \in SUBSET {f} :
          LET split == f > newest /\ cloud # {}
              filled == IF split THEN new ELSE cloud \union new
              before == count + (IF split THEN 1 ELSE 0)
          IN  \/ /\ cloud' = filled
                 /\ given' = IF split THEN cloud ELSE given
                 /\ count' = before
              \/ /\ splitAtMax /\ filled # {}
                 /\ cloud' = {} /\ given' = filled /\ count' = before + 1
    /\ UNCHANGED splitAtMax

Next == \E f \in Frame : Deliver(f)
Spec == Init /\ [][Next]_vars
=============================================================================
